---- MODULE Spec2Model ----
(***************************************************************************)
(* Model of the path registry of ProjectSuite (src/PathRegistry.py).       *)
(*                                                                         *)
(* A path string is modelled as the sequence of its components; an         *)
(* absolute path starts with the component "/".  <<>> is the empty string. *)
(* The filesystem is the set of directories, the map from file paths to    *)
(* file contents, and the set of directories in which entries can neither  *)
(* be created nor removed.                                                 *)
(***************************************************************************)
EXTENDS Integers, Sequences, FiniteSets, TLC

VARIABLES
    paths,      \* PathRegistry._paths : key -> path string
    userPaths,  \* PathRegistry._user_paths
    cfg,        \* PathRegistry._config (the empty map stands for None / {})
    settingsCache, \* PathRegistry._settings_cache
    dirs,       \* directories on disk
    files,      \* files on disk : path -> content
    readonly,   \* directories that refuse creation / removal of entries
    environ,    \* os.environ of the process, fixed before boot
    diagnosis,  \* the report the caller keeps from its last diagnose()
    paths2,     \* _paths of the registry of a second, later process
    exported,   \* history: file -> _paths at the moment export_config wrote it
    last,       \* history: the last registry call, its arguments and result
    nEnv,       \* number of changes made to the disk from outside
    nReg,       \* number of register_path calls made by callers
    inst,       \* PathRegistry._instance of the process: made, _initialized, logger set
    threads,    \* a starting process whose threads obtain the registry concurrently
    dash        \* a DashboardConnector and the child processes it started

vars == <<paths, userPaths, cfg, settingsCache, dirs, files, readonly, environ,
          diagnosis, paths2, exported, last, nEnv, nReg, inst, threads, dash>>

----------------------------------------------------------------------------
(* Bounds *)

MaxEnv == 1
MaxReg == 1
MaxProc == 3

----------------------------------------------------------------------------
(* Path strings *)

\* Python's None where a path string is expected
NoneP == <<"<None>">>

\* `not path` : None and the empty string are falsy
IsFalsy(p) == p = NoneP \/ p = <<>>

Root == <<"/">>
Home == <<"/", "home">>
\* os.getcwd(): the launcher starts the process in the application directory
Cwd == <<"/", "app">>

IsAbs(p) == Len(p) > 0 /\ p[1] = "/"

RECURSIVE Collapse(_, _)
\* os.path.normpath on an absolute path: drop ".", resolve ".." (never above /)
Collapse(acc, rest) ==
    IF rest = <<>> THEN acc
    ELSE LET t == Head(rest) IN
         IF t = "." THEN Collapse(acc, Tail(rest))
         ELSE IF t = ".."
              THEN Collapse(IF Len(acc) > 1 THEN SubSeq(acc, 1, Len(acc) - 1) ELSE acc,
                            Tail(rest))
              ELSE Collapse(Append(acc, t), Tail(rest))

\* os.path.abspath(p): the absolute, normalized form of p; also the place the
\* operating system looks at when it is handed p
Normalize(p) ==
    IF IsAbs(p) THEN Collapse(Root, Tail(p)) ELSE Collapse(Root, Tail(Cwd) \o p)

Parent(p) == IF Len(p) > 1 THEN SubSeq(p, 1, Len(p) - 1) ELSE p

Prefixes(p) == { SubSeq(p, 1, i) : i \in 1..Len(p) }

IsPrefix(a, b) == Len(a) <= Len(b) /\ SubSeq(b, 1, Len(a)) = a

----------------------------------------------------------------------------
(* Filesystem primitives.  S is a record with the fields dirs and files (and, *)
(* for the registry operations, paths, user, cfg and cache); ro is the set   *)
(* of write-protected directories.                                           *)

OnDisk(S, q) == q \in S.dirs \/ q \in DOMAIN S.files

\* os.path.exists(p) / Path(p).exists()
FsExists(S, p) == OnDisk(S, Normalize(p))

\* Path(p).is_dir()
FsIsDir(S, p) == Normalize(p) \in S.dirs

\* deepest component prefix of q that is present on disk (the root always is)
DeepestExisting(S, q) ==
    CHOOSE a \in Prefixes(q) :
        /\ OnDisk(S, a)
        /\ \A b \in Prefixes(q) : OnDisk(S, b) => Len(b) <= Len(a)

\* creation of the missing components of q below its deepest existing prefix a
MkdirBelow(S, ro, q, a) ==
    IF a \in DOMAIN S.files \/ a \in ro
    THEN [ok |-> FALSE, dirs |-> S.dirs]
    ELSE [ok |-> TRUE, dirs |-> S.dirs \cup { b \in Prefixes(q) : Len(b) > Len(a) }]

MkdirAt(S, ro, q) ==
    IF q \in S.dirs THEN [ok |-> TRUE, dirs |-> S.dirs]
    ELSE IF q \in DOMAIN S.files THEN [ok |-> FALSE, dirs |-> S.dirs]
    ELSE MkdirBelow(S, ro, q, DeepestExisting(S, q))

\* Path(p).mkdir(parents=True, exist_ok=True): [ok, dirs]
\* ok = FALSE stands for the OSError it raises
Mkdir(S, ro, p) == MkdirAt(S, ro, Normalize(p))

Upd(fn, k, v) == [x \in DOMAIN fn \cup {k} |-> IF x = k THEN v ELSE fn[x]]

Restrict(fn, D) == [x \in D |-> fn[x]]

EmptyMap == [x \in {} |-> <<>>]

----------------------------------------------------------------------------
(* Keys and default locations *)

UserDocDir == Home \o <<"Documents", "ProjectSuite">>
PMData == UserDocDir \o <<"ProjectManager", "data">>
DefaultProjectsDir == Home \o <<"Desktop", "projects">>
DefaultDbPath == PMData \o <<"projects.db">>
AppBasePath == <<"/", "app">>

\* the register_path calls of _register_default_paths, in order, for the
\* application base path of the process
Registrations(base) == <<
    <<"ROOT", base>>,
    <<"USER_DATA_DIR", UserDocDir>>,
    <<"LOGS_DIR", UserDocDir \o <<"logs">> >>,
    <<"DATA_DIR", UserDocDir>>,
    <<"EXPORTS_DIR", PMData \o <<"exports">> >>,
    <<"TEMPLATES_DIR", PMData \o <<"templates">> >>,
    <<"PROJECTS_DIR", DefaultProjectsDir>>,
    <<"OUTPUT_BASE_DIR", DefaultProjectsDir>>,
    <<"MASTER_DIR", PMData \o <<"master">> >>,
    <<"TEMP_DIR", UserDocDir \o <<"temp">> >>,
    <<"BACKUP_DIR", UserDocDir \o <<"backup">> >>,
    <<"CPL_DIR", UserDocDir \o <<"CreateProjectList">> >>,
    <<"CPL_CONFIG_DIR", UserDocDir \o <<"CreateProjectList", "config">> >>,
    <<"CPL_TEMP_DIR", UserDocDir \o <<"CreateProjectList", "temp">> >>,
    <<"CPL_TEMPLATES_DIR", UserDocDir \o <<"CreateProjectList", "templates">> >>,
    <<"CPL_CACHE_DIR", UserDocDir \o <<"CreateProjectList", "cache">> >>,
    <<"DB_PATH", DefaultDbPath>> >>

DefaultKeys ==
    {"ROOT", "USER_DATA_DIR", "LOGS_DIR", "DATA_DIR", "EXPORTS_DIR", "TEMPLATES_DIR",
     "PROJECTS_DIR", "OUTPUT_BASE_DIR", "MASTER_DIR", "TEMP_DIR", "BACKUP_DIR", "CPL_DIR",
     "CPL_CONFIG_DIR", "CPL_TEMP_DIR", "CPL_TEMPLATES_DIR", "CPL_CACHE_DIR", "DB_PATH"}

\* keys callers register besides the defaults
ExtraKeys == {"projects_dir"}

\* key.endswith("_DIR") or key.endswith("_FOLDER"), over the keys of the model
EndsWithDirOrFolder(key) == key \in (DefaultKeys \ {"ROOT", "DB_PATH"})

----------------------------------------------------------------------------
(* register_path *)

\* register_path that stores the normalized form of the path
register_path_normalizing(S, ro, key, path) ==
    [S EXCEPT !.paths = Upd(@, key, Normalize(path)),
              !.user = @ \cup {key},
              !.dirs = IF EndsWithDirOrFolder(key) THEN Mkdir(S, ro, path).dirs ELSE @]

\* register_path(key, path): the registry and the disk after the call
register_path_op(S, ro, key, path) ==
    [S EXCEPT !.paths = Upd(@, key, path),
              !.user = @ \cup {key},
              !.dirs = IF EndsWithDirOrFolder(key) THEN Mkdir(S, ro, path).dirs ELSE @]

RECURSIVE RegisterAll(_, _, _)
\* a run of register_path calls over a list of <<key, path>> pairs
RegisterAll(S, ro, regs) ==
    IF regs = <<>> THEN S
    ELSE RegisterAll(register_path_op(S, ro, Head(regs)[1], Head(regs)[2]), ro, Tail(regs))

RECURSIVE RegisterDefaults(_, _, _)
\* _register_default_paths run from __init__, where self.logger is not yet
\* set: the handler of a failed mkdir raises AttributeError and construction
\* stops there.  [S, crashed]
RegisterDefaults(S, ro, regs) ==
    IF regs = <<>> THEN [S |-> S, crashed |-> FALSE]
    ELSE IF EndsWithDirOrFolder(Head(regs)[1]) /\ ~Mkdir(S, ro, Head(regs)[2]).ok
         THEN [S |-> register_path_op(S, ro, Head(regs)[1], Head(regs)[2]), crashed |-> TRUE]
         ELSE RegisterDefaults(register_path_op(S, ro, Head(regs)[1], Head(regs)[2]),
                               ro, Tail(regs))

\* PathRegistry.__init__ on the disk (dirs, files): [S, crashed]
init_op(d, f, ro, base) ==
    RegisterDefaults([paths |-> EmptyMap, user |-> {}, cfg |-> EmptyMap, cache |-> EmptyMap,
                      dirs |-> d, files |-> f],
                     ro, Registrations(base))

\* the disk before the first start: home, Documents, Desktop and the
\* application directory exist
DiskBeforeBoot == { Root, Home, Home \o <<"Documents">>, Home \o <<"Desktop">>, AppBasePath }

----------------------------------------------------------------------------
(* File contents *)

\* a text file: its lines, each line the sequence of its tokens
TextDoc(lines) ==
    [kind |-> "text", lines |-> lines, paths |-> <<>>, timestamp |-> "", app_version |-> ""]

\* a JSON document as export_config writes it: "paths" is the sequence of
\* its <<key, value>> members in document order
JsonDoc(pairs) ==
    [kind |-> "json", lines |-> <<>>, paths |-> pairs, timestamp |-> "now",
     app_version |-> "1.0.0"]

\* a text file whose reading fails part-way (an undecodable byte, an I/O
\* error): lines are the lines the reader delivers before it fails
TornDoc(lines) ==
    [kind |-> "torn", lines |-> lines, paths |-> <<>>, timestamp |-> "", app_version |-> ""]

\* any other file (a database, a probe file): not text the loaders can parse
Blob == [kind |-> "blob", lines |-> <<>>, paths |-> <<>>, timestamp |-> "", app_version |-> ""]

RECURSIVE LStrip(_)
LStrip(s) == IF s # <<>> /\ Head(s) = " " THEN LStrip(Tail(s)) ELSE s

RECURSIVE RStrip(_)
RStrip(s) == IF s # <<>> /\ s[Len(s)] = " " THEN RStrip(SubSeq(s, 1, Len(s) - 1)) ELSE s

\* str.strip()
Strip(s) == RStrip(LStrip(s))

\* position of the first "=" of a line, 0 when there is none
FirstEq(s) ==
    IF \E i \in 1..Len(s) : s[i] = "="
    THEN CHOOSE i \in 1..Len(s) : s[i] = "=" /\ \A j \in 1..(i - 1) : s[j] # "="
    ELSE 0

\* key, value = [x.strip() for x in line.split('=', 1)], e the place of "=";
\* bad: the unpacking raises ValueError
SplitLine(line, e) ==
    IF e = 0
    THEN [skip |-> FALSE, bad |-> TRUE, key |-> <<>>, value |-> <<>>]
    ELSE [skip |-> FALSE, bad |-> FALSE,
          key |-> Strip(SubSeq(line, 1, e - 1)),
          value |-> Strip(SubSeq(line, e + 1, Len(line)))]

\* if line and not line.startswith('#'): ...   (skip: blank line or comment)
ParseStripped(line) ==
    IF line = <<>> \/ Head(line) = "#"
    THEN [skip |-> TRUE, bad |-> FALSE, key |-> <<>>, value |-> <<>>]
    ELSE SplitLine(line, FirstEq(line))

\* the body of the line loop shared by _load_config and migrate_legacy_config
ParseLine(raw) == ParseStripped(Strip(raw))

\* config[key] = value, or `continue`
ConfigWith(config, pl) ==
    IF pl.skip \/ pl.bad THEN config ELSE Upd(config, pl.key, pl.value)

RECURSIVE ParseConfigLines(_, _)
\* the dict _load_config builds from the lines of one file
ParseConfigLines(config, lines) ==
    IF lines = <<>> THEN config
    ELSE ParseConfigLines(ConfigWith(config, ParseLine(Head(lines))), Tail(lines))

----------------------------------------------------------------------------
(* get_path and the lazily loaded settings *)

DefaultsTxtCandidates == << UserDocDir \o <<"defaults.txt">>, AppBasePath \o <<"defaults.txt">> >>

\* the file exists, opens and decodes as text
Readable(S, p) == p \in DOMAIN S.files /\ S.files[p].kind = "text"

\* the lines `for line in f` delivers before the read of p ends or fails
LinesRead(S, p) ==
    IF p \in DOMAIN S.files /\ S.files[p].kind \in {"text", "torn"} THEN S.files[p].lines
    ELSE <<>>

RECURSIVE LoadFromCandidates(_, _, _)
\* the candidate loop of _load_config over the one dict `config` created
\* before the loop: [config, hit]
LoadFromCandidates(S, config, cands) ==
    IF cands = <<>> THEN [config |-> config, hit |-> FALSE]
    ELSE IF Readable(S, Head(cands))
         THEN [config |-> ParseConfigLines(config, LinesRead(S, Head(cands))), hit |-> TRUE]
         ELSE LoadFromCandidates(S, ParseConfigLines(config, LinesRead(S, Head(cands))),
                                 Tail(cands))

Loaded(S, r) == [config |-> r.config, cache |-> IF r.hit THEN r.config ELSE S.cache]

\* _load_config: [config returned, _settings_cache afterwards]
load_config(S) ==
    IF S.cache # EmptyMap THEN [config |-> S.cache, cache |-> S.cache]
    ELSE Loaded(S, LoadFromCandidates(S, EmptyMap, DefaultsTxtCandidates))

\* get_config(): the registry afterwards; the dict returned is its cfg
get_config_op(S) ==
    IF S.cfg = EmptyMap
    THEN [S EXCEPT !.cfg = load_config(S).config, !.cache = load_config(S).cache]
    ELSE S

CustomKey == <<"custom_projects_dir">>

\* if custom_path and os.path.exists(custom_path): return custom_path
CustomResult(S, custom) ==
    [ret |-> IF ~IsFalsy(custom) /\ FsExists(S, custom) THEN custom ELSE NoneP, S |-> S]

CustomFrom(S, ld) ==
    CustomResult([S EXCEPT !.cfg = ld.config, !.cache = ld.cache],
                 IF CustomKey \in DOMAIN ld.config THEN ld.config[CustomKey] ELSE NoneP)

\* get_custom_projects_path: [ret, S]
get_custom_projects_path(S) ==
    CustomFrom(S, IF S.cfg = EmptyMap THEN load_config(S)
                  ELSE [config |-> S.cfg, cache |-> S.cache])

Alias(key) == IF key = "PROJECTS_DIR" THEN "OUTPUT_BASE_DIR" ELSE "PROJECTS_DIR"

IsProjectsKey(key) == key = "PROJECTS_DIR" \/ key = "OUTPUT_BASE_DIR"

\* get_path that looks at the alias before the custom path
GetProjectsPathAliasFirst(ro, key, default, cp) ==
    IF Alias(key) \in DOMAIN cp.S.paths
    THEN [ret |-> cp.S.paths[Alias(key)], S |-> cp.S]
    ELSE IF cp.ret # NoneP
         THEN [ret |-> cp.ret, S |-> register_path_op(cp.S, ro, key, cp.ret)]
         ELSE [ret |-> default, S |-> cp.S]

\* steps 2 and 3 of get_path for the projects keys, cp the custom path lookup
GetProjectsPath(ro, key, default, cp) ==
    IF cp.ret # NoneP
    THEN [ret |-> cp.ret, S |-> register_path_op(cp.S, ro, key, cp.ret)]
    ELSE IF Alias(key) \in DOMAIN cp.S.paths
         THEN [ret |-> cp.S.paths[Alias(key)], S |-> cp.S]
         ELSE [ret |-> default, S |-> cp.S]

\* get_path(key, default): [ret, S]
get_path_op(S, ro, key, default) ==
    IF key \in DOMAIN S.paths THEN [ret |-> S.paths[key], S |-> S]
    ELSE IF IsProjectsKey(key)
         THEN GetProjectsPath(ro, key, default, get_custom_projects_path(S))
         ELSE [ret |-> default, S |-> S]

EnsureMade(S, m) == [ok |-> m.ok, S |-> [S EXCEPT !.dirs = m.dirs]]

\* ensure_directory whose mkdir lacks exist_ok and the is_dir shortcut
EnsureResolvedStrict(ro, g) ==
    IF IsFalsy(g.ret) THEN [ok |-> FALSE, S |-> g.S]
    ELSE IF FsExists(g.S, g.ret) THEN [ok |-> FALSE, S |-> g.S]
         ELSE EnsureMade(g.S, Mkdir(g.S, ro, g.ret))

EnsureResolved(ro, g) ==
    IF IsFalsy(g.ret) THEN [ok |-> FALSE, S |-> g.S]
    ELSE IF FsExists(g.S, g.ret) /\ FsIsDir(g.S, g.ret) THEN [ok |-> TRUE, S |-> g.S]
         ELSE EnsureMade(g.S, Mkdir(g.S, ro, g.ret))

\* ensure_directory(key): [ok, S]
ensure_directory_op(S, ro, key) == EnsureResolved(ro, get_path_op(S, ro, key, NoneP))

----------------------------------------------------------------------------
(* diagnose.  D = [S, issues] is the registry and disk together with the   *)
(* issues found so far.                                                     *)

Issue(type, key, path, severity, fixable) ==
    [type |-> type, key |-> key, path |-> path, severity |-> severity, fixable |-> fixable]

EssentialDirs == <<"USER_DATA_DIR", "LOGS_DIR", "DATA_DIR", "PROJECTS_DIR">>

\* pathlib's Path(p).parent, as the string str() makes of it
PathParent(p) ==
    IF Len(p) > 1 THEN SubSeq(p, 1, Len(p) - 1)
    ELSE IF IsAbs(p) THEN p ELSE <<".">>

\* the essential directory check flagging every issue as fixable
DirIssueAllFixable(S, key, path) ==
    IF IsFalsy(path) THEN << Issue("missing_key", key, NoneP, "high", TRUE) >>
    ELSE IF ~FsExists(S, path) THEN << Issue("missing_dir", key, path, "warning", TRUE) >>
    ELSE IF ~FsIsDir(S, path) THEN << Issue("not_dir", key, path, "error", TRUE) >>
    ELSE <<>>

\* the issue, if any, of one essential directory key
DirIssue(S, key, path) ==
    IF IsFalsy(path) THEN << Issue("missing_key", key, NoneP, "high", FALSE) >>
    ELSE IF ~FsExists(S, path) THEN << Issue("missing_dir", key, path, "warning", TRUE) >>
    ELSE IF ~FsIsDir(S, path) THEN << Issue("not_dir", key, path, "error", FALSE) >>
    ELSE <<>>

DirChecked(D, key, g) == [S |-> g.S, issues |-> D.issues \o DirIssue(g.S, key, g.ret)]

RECURSIVE DiagnoseDirs(_, _, _)
\* the essential_dirs loop
DiagnoseDirs(D, ro, keys) ==
    IF keys = <<>> THEN D
    ELSE DiagnoseDirs(DirChecked(D, Head(keys), get_path_op(D.S, ro, Head(keys), NoneP)),
                      ro, Tail(keys))

DbChecked(D, g) ==
    [S |-> g.S,
     issues |-> IF ~IsFalsy(g.ret) /\ ~FsExists(g.S, PathParent(g.ret))
                THEN Append(D.issues, Issue("db_parent_missing", "DB_PATH", PathParent(g.ret),
                                            "warning", TRUE))
                ELSE D.issues]

\* the database check
DiagnoseDb(D, ro) == DbChecked(D, get_path_op(D.S, ro, "DB_PATH", NoneP))

WriteTest(dir) == Normalize(dir) \o <<".write_test">>

\* test_file.touch(); test_file.unlink() for the probe file t of directory q:
\* [ok, files]; ok = FALSE stands for the PermissionError / OSError
ProbeAt(S, ro, q, t) ==
    IF t \in S.dirs
    THEN \* touch updates the times of the directory, unlink refuses it
         [ok |-> FALSE, files |-> S.files]
    ELSE IF t \in DOMAIN S.files
         THEN \* touch updates the times, unlink removes the file
              IF q \in ro THEN [ok |-> FALSE, files |-> S.files]
              ELSE [ok |-> TRUE, files |-> Restrict(S.files, DOMAIN S.files \ {t})]
         ELSE \* touch creates the file, unlink removes it again
              IF q \notin S.dirs \/ q \in ro THEN [ok |-> FALSE, files |-> S.files]
              ELSE [ok |-> TRUE, files |-> S.files]

WriteProbe(S, ro, p) == ProbeAt(S, ro, Normalize(p), WriteTest(p))

Probed(D, g, w) ==
    [S |-> [g.S EXCEPT !.files = w.files],
     issues |-> IF w.ok THEN D.issues
                ELSE Append(D.issues, Issue("permission_error", "PROJECTS_DIR", g.ret,
                                            "error", FALSE))]

ProjectsChecked(D, ro, g) ==
    IF IsFalsy(g.ret) THEN [S |-> g.S, issues |-> D.issues]
    ELSE IF ~FsExists(g.S, g.ret)
         THEN [S |-> g.S,
               issues |-> Append(D.issues, Issue("projects_dir_missing", "PROJECTS_DIR", g.ret,
                                                 "warning", TRUE))]
         ELSE Probed(D, g, WriteProbe(g.S, ro, g.ret))

\* the projects directory check
DiagnoseProjects(D, ro) == ProjectsChecked(D, ro, get_path_op(D.S, ro, "PROJECTS_DIR", NoneP))

CountSeverity(issues, sev) == Cardinality({ i \in 1..Len(issues) : issues[i].severity = sev })

\* the dict diagnose returns
Report(issues) ==
    [issues |-> issues,
     total_issues |-> Len(issues),
     error_count |-> CountSeverity(issues, "error"),
     warning_count |-> CountSeverity(issues, "warning")]

Diagnosed(D) == [S |-> D.S, report |-> Report(D.issues)]

\* diagnose(): [S, report]
diagnose_op(S, ro) ==
    Diagnosed(DiagnoseProjects(DiagnoseDb(DiagnoseDirs([S |-> S, issues |-> <<>>],
                                                       ro, EssentialDirs),
                                          ro),
                               ro))

NoReport == Report(<<>>)

----------------------------------------------------------------------------
(* auto_repair.  A = [S, repaired, failed] *)

FixableTypes == {"missing_dir", "db_parent_missing", "projects_dir_missing"}

RepairAction(type) ==
    CASE type = "missing_dir" -> "created_directory"
      [] type = "db_parent_missing" -> "created_db_parent"
      [] type = "projects_dir_missing" -> "created_projects_dir"

\* auto_repair that swallows a failed mkdir
MendedSilently(A, issue, m) ==
    IF m.ok
    THEN [A EXCEPT !.S = [@ EXCEPT !.dirs = m.dirs],
                   !.repaired = Append(@, [key |-> issue.key, path |-> issue.path,
                                           action |-> RepairAction(issue.type)])]
    ELSE A

\* the try / except around path.mkdir for one fixable issue, m the mkdir
Mended(A, issue, m) ==
    IF m.ok
    THEN [A EXCEPT !.S = [@ EXCEPT !.dirs = m.dirs],
                   !.repaired = Append(@, [key |-> issue.key, path |-> issue.path,
                                           action |-> RepairAction(issue.type)])]
    ELSE [A EXCEPT !.failed = Append(@, [key |-> issue.key, path |-> issue.path,
                                         reason |-> "mkdir failed"])]

\* auto_repair that passes over the directories of the essential keys
RepairOneOfDbAndProjects(A, ro, issue) ==
    IF issue.fixable /\ issue.type \in FixableTypes \ {"missing_dir"}
    THEN Mended(A, issue, Mkdir(A.S, ro, issue.path))
    ELSE A

\* the body of the loop of auto_repair for one issue
RepairOne(A, ro, issue) ==
    IF issue.fixable /\ issue.type \in FixableTypes
    THEN Mended(A, issue, Mkdir(A.S, ro, issue.path))
    ELSE A

RECURSIVE RepairAllStopping(_, _, _)
\* auto_repair that gives up at the first directory it cannot create
RepairAllStopping(A, ro, issues) ==
    IF issues = <<>> \/ A.failed # <<>> THEN A
    ELSE RepairAllStopping(RepairOne(A, ro, Head(issues)), ro, Tail(issues))

RECURSIVE RepairAll(_, _, _)
RepairAll(A, ro, issues) ==
    IF issues = <<>> THEN A
    ELSE RepairAll(RepairOne(A, ro, Head(issues)), ro, Tail(issues))

RepairResult(given, A) ==
    [S |-> A.S, given |-> given, repaired |-> A.repaired, failed |-> A.failed]

RepairList(S, ro, issues) ==
    RepairResult(issues, RepairAll([S |-> S, repaired |-> <<>>, failed |-> <<>>], ro, issues))

RepairDiagnosed(ro, dg) == RepairList(dg.S, ro, dg.report.issues)

\* the argument None of auto_repair
NoIssues == << Issue("<None>", "", NoneP, "", FALSE) >>

\* auto_repair(issues): [S, given, repaired, failed]; given is the list worked on
auto_repair_op(S, ro, issues) ==
    IF issues = NoIssues THEN RepairDiagnosed(ro, diagnose_op(S, ro))
    ELSE RepairList(S, ro, issues)

----------------------------------------------------------------------------
(* migrate_legacy_config.  M = [S, migrated, failed] *)

LegacyPaths == << Home \o <<".projectsuite_paths.txt">>,
                  AppBasePath \o <<"paths.config">>,
                  Home \o <<"Documents", "ProjectManager", "config.txt">> >>

\* f"{name}.bak" on the file names of LegacyPaths
BakName(name) ==
    CASE name = ".projectsuite_paths.txt" -> ".projectsuite_paths.txt.bak"
      [] name = "paths.config" -> "paths.config.bak"
      [] name = "config.txt" -> "config.txt.bak"

\* f"{path}.bak"
BackupPath(p) == SubSeq(p, 1, Len(p) - 1) \o << BakName(p[Len(p)]) >>

\* str.lower() on the key tokens of the model
Lower(t) ==
    CASE t = "PROJECT_DIR" -> "project_dir"
      [] t = "Output_Dir" -> "output_dir"
      [] t = "DATABASE_PATH" -> "database_path"
      [] OTHER -> t

\* key_map of _normalize_legacy_key
key_map ==
    [k \in {"project_dir", "output_dir", "template_dir", "master_dir", "database_path",
            "log_dir", "data_dir", "export_dir", "temp_dir"} |->
        CASE k = "project_dir" -> "PROJECTS_DIR"
          [] k = "output_dir" -> "PROJECTS_DIR"
          [] k = "template_dir" -> "TEMPLATES_DIR"
          [] k = "master_dir" -> "MASTER_DIR"
          [] k = "database_path" -> "DB_PATH"
          [] k = "log_dir" -> "LOGS_DIR"
          [] k = "data_dir" -> "DATA_DIR"
          [] k = "export_dir" -> "EXPORTS_DIR"
          [] k = "temp_dir" -> "TEMP_DIR"]

\* _normalize_legacy_key(key); "" stands for None
normalize_legacy_key(key) ==
    IF Len(key) = 1 /\ Lower(key[1]) \in DOMAIN key_map
    THEN key_map[Lower(key[1])]
    ELSE ""

\* if normalized_key: register_path(...); migrated_paths.append(...)
KeyMigrated(M, ro, pl, nk) ==
    IF nk = "" THEN M
    ELSE [M EXCEPT !.S = register_path_op(@, ro, nk, pl.value),
                   !.migrated = Append(@, [key |-> pl.key, normalized |-> nk,
                                           value |-> pl.value])]

LineMigrated(M, ro, raw, pl) ==
    IF pl.skip THEN M
    ELSE IF pl.bad
         THEN [M EXCEPT !.failed = Append(@, [kind |-> "Invalid format", item |-> Strip(raw)])]
         ELSE KeyMigrated(M, ro, pl, normalize_legacy_key(pl.key))

RECURSIVE MigrateLines(_, _, _)
\* the line loop of one legacy file
MigrateLines(M, ro, lines) ==
    IF lines = <<>> THEN M
    ELSE MigrateLines(LineMigrated(M, ro, Head(lines), ParseLine(Head(lines))), ro, Tail(lines))

\* os.rename(p, b) after os.remove(b)
MovedFile(f, p, b) ==
    [x \in (DOMAIN f \ {p}) \cup {b} |-> IF x = b THEN f[p] ELSE f[x]]

\* migration that copies the legacy file to the backup and leaves it in place
RenamedByCopy(ro, p, L) ==
    IF Parent(p) \in ro \/ BackupPath(p) \in L.S.dirs
    THEN [L EXCEPT !.failed = Append(@, [kind |-> "error", item |-> p])]
    ELSE [L EXCEPT !.S = [@ EXCEPT !.files = Upd(@, BackupPath(p), @[p])]]

\* backup_path = f"{path}.bak"; remove it if it exists; rename path to it.
\* In a write-protected directory, or with a directory at backup_path, the
\* remove / rename raises: the file stays and is reported.
Renamed(ro, p, L) ==
    IF Parent(p) \in ro \/ BackupPath(p) \in L.S.dirs
    THEN [L EXCEPT !.failed = Append(@, [kind |-> "error", item |-> p])]
    ELSE [L EXCEPT !.S = [@ EXCEPT !.files = MovedFile(@, p, BackupPath(p))]]

\* migration that reports a legacy file it does not find
MigrateFileStrict(M, ro, p) ==
    IF ~FsExists(M.S, p) \/ ~Readable(M.S, p)
    THEN [M EXCEPT !.failed = Append(@, [kind |-> "error", item |-> p])]
    ELSE Renamed(ro, p, MigrateLines(M, ro, M.S.files[p].lines))

\* one iteration of the legacy_paths loop
MigrateFile(M, ro, p) ==
    IF ~FsExists(M.S, p) THEN M
    ELSE IF ~Readable(M.S, p)
         THEN \* open / decode raises: reported, file left in place
              [M EXCEPT !.failed = Append(@, [kind |-> "error", item |-> p])]
         ELSE Renamed(ro, p, MigrateLines(M, ro, M.S.files[p].lines))

RECURSIVE MigrateFiles(_, _, _)
MigrateFiles(M, ro, ps) ==
    IF ps = <<>> THEN M ELSE MigrateFiles(MigrateFile(M, ro, Head(ps)), ro, Tail(ps))

MigrateEssentialDirs ==
    <<"USER_DATA_DIR", "LOGS_DIR", "DATA_DIR", "PROJECTS_DIR",
      "CPL_DIR", "CPL_CONFIG_DIR", "CPL_TEMP_DIR">>

Ensured(E, key, e) ==
    [S |-> e.S, created |-> IF e.ok THEN Append(E.created, key) ELSE E.created]

RECURSIVE EnsureAll(_, _, _)
\* the essential_dirs loop of migrate_legacy_config, on E = [S, created]
EnsureAll(E, ro, keys) ==
    IF keys = <<>> THEN E
    ELSE EnsureAll(Ensured(E, Head(keys), ensure_directory_op(E.S, ro, Head(keys))),
                   ro, Tail(keys))

MigrateResult(M, E) ==
    [S |-> E.S, migrated |-> M.migrated, failed |-> M.failed, created |-> E.created]

FilesMigrated(ro, M) ==
    MigrateResult(M, EnsureAll([S |-> M.S, created |-> <<>>], ro, MigrateEssentialDirs))

\* migrate_legacy_config(): [S, migrated, failed, created]
migrate_legacy_config_op(S, ro) ==
    FilesMigrated(ro, MigrateFiles([S |-> S, migrated |-> <<>>, failed |-> <<>>],
                                   ro, LegacyPaths))

----------------------------------------------------------------------------
(* export_config / import_config *)

RECURSIVE DictItems(_), ItemsFrom(_, _)
\* the members of a dict, as json.dump writes them one after the other
DictItems(fn) ==
    IF DOMAIN fn = {} THEN <<>> ELSE ItemsFrom(fn, CHOOSE x \in DOMAIN fn : TRUE)

ItemsFrom(fn, k) == << <<k, fn[k]>> >> \o DictItems(Restrict(fn, DOMAIN fn \ {k}))

\* os.path.join(a, name)
Join(a, name) == a \o <<name>>

\* os.path.dirname(p)
Dirname(p) == IF Len(p) > 1 THEN SubSeq(p, 1, Len(p) - 1) ELSE IF IsAbs(p) THEN p ELSE <<>>

\* with open(path, 'w') as f: json.dump(export_data, f), after the makedirs m
Written(S, ro, t, m) ==
    IF m.ok /\ t \notin m.dirs /\ (t \in DOMAIN S.files \/ Parent(t) \notin ro)
    THEN [ok |-> TRUE, target |-> t,
          S |-> [S EXCEPT !.dirs = m.dirs,
                          !.files = Upd(@, t, JsonDoc(DictItems(S.paths)))]]
    ELSE [ok |-> FALSE, target |-> t, S |-> [S EXCEPT !.dirs = m.dirs]]

\* os.makedirs(os.path.dirname(path), exist_ok=True), which raises on ""
ExportTo(S, ro, target) ==
    Written(S, ro, Normalize(target),
            IF Dirname(target) = <<>> THEN [ok |-> FALSE, dirs |-> S.dirs]
            ELSE Mkdir(S, ro, Dirname(target)))

ExportDefault(ro, g) ==
    ExportTo(g.S, ro, Join(IF IsFalsy(g.ret) THEN UserDocDir ELSE g.ret, "path_settings.json"))

\* export_config(path); path = NoneP stands for None: [ok, target, S]
export_config_op(S, ro, path) ==
    IF path = NoneP THEN ExportDefault(ro, get_path_op(S, ro, "USER_DATA_DIR", NoneP))
    ELSE ExportTo(S, ro, path)

RECURSIVE RegisterMissing(_, _, _)
RegisterMissing(S, ro, regs) ==
    IF regs = <<>> THEN S
    ELSE RegisterMissing(IF Head(regs)[1] \in DOMAIN S.paths THEN S
                         ELSE register_path_op(S, ro, Head(regs)[1], Head(regs)[2]),
                         ro, Tail(regs))

\* import_config that keeps the value of a key it already holds
ImportKeepingExisting(S, ro, t) ==
    IF t \in DOMAIN S.files /\ S.files[t].kind = "json"
    THEN [ok |-> TRUE, S |-> RegisterMissing(S, ro, S.files[t].paths)]
    ELSE [ok |-> FALSE, S |-> S]

\* json.load succeeds on a JSON document only
ImportFrom(S, ro, t) ==
    IF t \in DOMAIN S.files /\ S.files[t].kind = "json"
    THEN [ok |-> TRUE, S |-> RegisterAll(S, ro, S.files[t].paths)]
    ELSE [ok |-> FALSE, S |-> S]

\* import_config(path): [ok, S]
import_config_op(S, ro, path) == ImportFrom(S, ro, Normalize(path))

----------------------------------------------------------------------------
(* Inputs *)

OldProductProjects == Home \o <<"Documents", "ProjectManagerSuite", "projects">>
RenamedProjects == UserDocDir \o <<"projects">>

\* keys callers pass
InputKeys == {"PROJECTS_DIR", "USER_DATA_DIR", "projects_dir"}

\* path strings callers pass: absolute, relative with "..", empty
InputPaths == { OldProductProjects, <<"data", "..", "out">>, <<>> }

\* legacy flat files as users have them
LegacyA == << <<"#", "paths">>,
              <<"project_dir", "=", "/", "x", "y">>,
              <<"bogus_key", "=", "1">>,
              <<>>,
              <<"garbage">> >>

LegacyB == << <<" ", "Output_Dir", " ", "=", " ", "/", "x", "z", " ">>,
              <<"PROJECT_DIR", "=", "/", "x", "y">>,
              <<"DATABASE_PATH", "=", "db", "old.db">> >>

SettingsJson == UserDocDir \o <<"path_settings.json">>
EnvLogsDir == Home \o <<"envlogs">>
ConfigLogsDir == Home \o <<"cfglogs">>

----------------------------------------------------------------------------
(* History of the last call *)

Pre == [paths |-> paths, dirs |-> dirs, files |-> files, paths2 |-> paths2,
        cfg |-> cfg, cache |-> settingsCache]

NoOut == [repaired |-> <<>>, failed |-> <<>>, issues |-> <<>>, given |-> <<>>,
          migrated |-> <<>>, created |-> <<>>]

Call(op, key, path, ret, ok, out) ==
    [op |-> op, key |-> key, path |-> path, ret |-> ret, ok |-> ok, out |-> out,
     pre |-> Pre]

\* the registry of the first process and the disk
Cur == [paths |-> paths, user |-> userPaths, cfg |-> cfg, cache |-> settingsCache,
        dirs |-> dirs, files |-> files]

SetState(S) ==
    /\ paths' = S.paths
    /\ userPaths' = S.user
    /\ cfg' = S.cfg
    /\ settingsCache' = S.cache
    /\ dirs' = S.dirs
    /\ files' = S.files

----------------------------------------------------------------------------
(* Initial state: the registry right after PathRegistry() of the first process *)

\* cls._instance: not made yet; made by a construction that ran to its end
NoInstance == [made |-> FALSE, initialized |-> FALSE, logger |-> FALSE]
Constructed == [made |-> TRUE, initialized |-> TRUE, logger |-> TRUE]

\* the threads of the starting process
Threads == {"t1", "t2"}

\* no thread has called yet: cls._instance is None (0), no object exists
NoThreads ==
    [instance |-> 0,
     objs |-> << >>,
     runs |-> 0,
     th |-> [t \in Threads |-> [pc |-> "idle", via |-> "", self |-> 0, got |-> 0, k |-> 0]]]

\* DashboardConnector.__init__: dashboard_process is None (0); no child
\* process was started
NoDash == [process |-> 0, alive |-> {}, started |-> 0]

\* the environment and the files found at boot: nothing; a legacy flat file
\* of an older version; or LOGS_DIR overridden both in path_settings.json and
\* in the environment variable APPSUITE_PATH_LOGS_DIR
BootSettings ==
    { [environ |-> EmptyMap, files |-> EmptyMap, dirs |-> DiskBeforeBoot],
      [environ |-> EmptyMap, files |-> [x \in {LegacyPaths[1]} |-> TextDoc(LegacyA)],
       dirs |-> DiskBeforeBoot],
      [environ |-> [v \in {"APPSUITE_PATH_LOGS_DIR"} |-> EnvLogsDir],
       files |-> [x \in {SettingsJson} |-> JsonDoc(<< <<"LOGS_DIR", ConfigLogsDir>> >>)],
       dirs |-> DiskBeforeBoot \cup {UserDocDir}] }

Started(b, boot) ==
    /\ ~boot.crashed
    /\ paths = boot.S.paths
    /\ userPaths = boot.S.user
    /\ cfg = boot.S.cfg
    /\ settingsCache = boot.S.cache
    /\ dirs = boot.S.dirs
    /\ files = boot.S.files
    /\ readonly = {}
    /\ environ = b.environ
    /\ diagnosis = NoReport
    /\ paths2 = EmptyMap
    /\ exported = EmptyMap
    /\ last = [op |-> "init", key |-> "", path |-> NoneP, ret |-> NoneP, ok |-> TRUE,
               out |-> NoOut,
               pre |-> [paths |-> boot.S.paths, dirs |-> boot.S.dirs, files |-> boot.S.files,
                        paths2 |-> EmptyMap, cfg |-> boot.S.cfg, cache |-> boot.S.cache]]
    /\ nEnv = 0
    /\ nReg = 0
    /\ inst = Constructed
    /\ threads = NoThreads
    /\ dash = NoDash

Init == \E b \in BootSettings : Started(b, init_op(b.dirs, b.files, {}, AppBasePath))

----------------------------------------------------------------------------
(* Registry operations of the first process *)

\* the except branch of register_path calls self.logger.warning: without the
\* logger attribute the AttributeError escapes
RegisterRaises(S, ro, key, path, logger) ==
    EndsWithDirOrFolder(key) /\ ~Mkdir(S, ro, path).ok /\ ~logger

register_path(key, path) ==
    /\ nReg < MaxReg
    /\ inst.made
    /\ SetState(register_path_op(Cur, readonly, key, path))
    /\ last' = Call("register_path", key, path, NoneP,
                    ~RegisterRaises(Cur, readonly, key, path, inst.logger), NoOut)
    /\ nReg' = nReg + 1
    /\ UNCHANGED <<readonly, environ, diagnosis, paths2, exported, nEnv, inst, threads, dash>>

GotPath(key, default, g) ==
    /\ SetState(g.S)
    /\ last' = Call("get_path", key, default, g.ret, TRUE, NoOut)

get_path(key, default) ==
    /\ inst.made
    /\ GotPath(key, default, get_path_op(Cur, readonly, key, default))
    /\ UNCHANGED <<readonly, environ, diagnosis, paths2, exported, nEnv, nReg, inst, threads, dash>>

EnsuredDirectory(key, e) ==
    /\ SetState(e.S)
    /\ last' = Call("ensure_directory", key, NoneP, NoneP, e.ok, NoOut)

ensure_directory(key) ==
    /\ EnsuredDirectory(key, ensure_directory_op(Cur, readonly, key))
    /\ UNCHANGED <<readonly, environ, diagnosis, paths2, exported, nEnv, nReg, inst, threads, dash>>

DiagnoseDone(dg) ==
    /\ SetState(dg.S)
    /\ diagnosis' = dg.report
    /\ last' = Call("diagnose", "", NoneP, NoneP, TRUE,
                    [NoOut EXCEPT !.issues = dg.report.issues])

diagnose ==
    /\ DiagnoseDone(diagnose_op(Cur, readonly))
    /\ UNCHANGED <<readonly, environ, paths2, exported, nEnv, nReg, inst, threads, dash>>

RepairDone(arg, ar) ==
    /\ SetState(ar.S)
    /\ last' = Call("auto_repair", arg, NoneP, NoneP, TRUE,
                    [NoOut EXCEPT !.given = ar.given, !.repaired = ar.repaired,
                                  !.failed = ar.failed])

\* auto_repair(None), and auto_repair(diagnosis["issues"]) with the report the
\* caller holds (main.py: setup_environment; path_config_dialog.py)
auto_repair(issues) ==
    /\ RepairDone(IF issues = NoIssues THEN "None" ELSE "issues",
                  auto_repair_op(Cur, readonly, issues))
    /\ UNCHANGED <<readonly, environ, diagnosis, paths2, exported, nEnv, nReg, inst, threads, dash>>

MigrateDone(mg) ==
    /\ SetState(mg.S)
    /\ last' = Call("migrate_legacy_config", "", NoneP, NoneP, TRUE,
                    [NoOut EXCEPT !.migrated = mg.migrated, !.failed = mg.failed,
                                  !.created = mg.created])

migrate_legacy_config ==
    /\ MigrateDone(migrate_legacy_config_op(Cur, readonly))
    /\ UNCHANGED <<readonly, environ, diagnosis, paths2, exported, nEnv, nReg, inst, threads, dash>>

ExportDone(path, ex) ==
    /\ SetState(ex.S)
    /\ exported' = IF ex.ok THEN Upd(exported, ex.target, paths) ELSE exported
    /\ last' = Call("export_config", "", path, ex.target, ex.ok, NoOut)

export_config(path) ==
    /\ ExportDone(path, export_config_op(Cur, readonly, path))
    /\ UNCHANGED <<readonly, environ, diagnosis, paths2, nEnv, nReg, inst, threads, dash>>

ImportDone(path, im) ==
    /\ SetState(im.S)
    /\ last' = Call("import_config", "", path, NoneP, im.ok, NoOut)

import_config(path) ==
    /\ ImportDone(path, import_config_op(Cur, readonly, path))
    /\ UNCHANGED <<readonly, environ, diagnosis, paths2, exported, nEnv, nReg, inst, threads, dash>>

get_config ==
    /\ inst.made
    /\ SetState(get_config_op(Cur))
    /\ last' = Call("get_config", "", NoneP, NoneP, TRUE, NoOut)
    /\ UNCHANGED <<readonly, environ, diagnosis, paths2, exported, nEnv, nReg, inst, threads, dash>>

----------------------------------------------------------------------------
(* A second process, started later on the same machine *)

SecondBasePath == <<"/", "app", "v2">>

\* the registry of the second process and the disk
Cur2 == [paths |-> paths2, user |-> DOMAIN paths2, cfg |-> EmptyMap, cache |-> EmptyMap,
         dirs |-> dirs, files |-> files]

Booted2(boot) ==
    /\ dirs' = boot.S.dirs
    /\ paths2' = IF boot.crashed THEN paths2 ELSE boot.S.paths
    /\ last' = Call("boot2", "", NoneP, NoneP, ~boot.crashed, NoOut)

\* store2 = PathRegistry() in the second process
boot2 ==
    /\ paths2 = EmptyMap
    /\ Booted2(init_op(dirs, files, readonly, SecondBasePath))
    /\ UNCHANGED <<paths, userPaths, cfg, settingsCache, files, readonly, environ,
                   diagnosis, exported, nEnv, nReg, inst, threads, dash>>

Imported2(path, im) ==
    /\ paths2' = im.S.paths
    /\ dirs' = im.S.dirs
    /\ last' = Call("import2", "", path, NoneP, im.ok, NoOut)

\* store2.import_config(path)
import2(path) ==
    /\ paths2 # EmptyMap
    /\ Imported2(path, import_config_op(Cur2, readonly, path))
    /\ UNCHANGED <<paths, userPaths, cfg, settingsCache, files, readonly, environ,
                   diagnosis, exported, nEnv, nReg, inst, threads, dash>>

----------------------------------------------------------------------------
(* Changes made to the disk from outside the registry *)

EnvCall == [op |-> "env", key |-> "", path |-> NoneP, ret |-> NoneP, ok |-> TRUE,
            out |-> NoOut, pre |-> Pre]

RemovableDirs == { DefaultProjectsDir, UserDocDir \o <<"ProjectManager">>, UserDocDir \o <<"logs">> }

\* the user deletes a directory tree
EnvRemoveTree(d) ==
    /\ nEnv < MaxEnv
    /\ d \in dirs
    /\ dirs' = { x \in dirs : ~IsPrefix(d, x) }
    /\ files' = Restrict(files, { x \in DOMAIN files : ~IsPrefix(d, x) })
    /\ readonly' = { x \in readonly : ~IsPrefix(d, x) }
    /\ last' = EnvCall
    /\ nEnv' = nEnv + 1
    /\ UNCHANGED <<paths, userPaths, cfg, settingsCache, environ, diagnosis, paths2,
                   exported, nReg, inst, threads, dash>>

Moved(x, src, dst) == IF IsPrefix(src, x) THEN dst \o SubSeq(x, Len(src) + 1, Len(x)) ELSE x

\* the user moves a directory: the old product directory to the current one
EnvMoveDir(src, dst) ==
    /\ nEnv < MaxEnv
    /\ src \in dirs
    /\ Parent(dst) \in dirs
    /\ dst \notin dirs /\ dst \notin DOMAIN files
    /\ dirs' = { Moved(x, src, dst) : x \in dirs }
    /\ files' = [y \in { Moved(x, src, dst) : x \in DOMAIN files } |->
                    files[CHOOSE x \in DOMAIN files : Moved(x, src, dst) = y]]
    /\ readonly' = { Moved(x, src, dst) : x \in readonly }
    /\ last' = EnvCall
    /\ nEnv' = nEnv + 1
    /\ UNCHANGED <<paths, userPaths, cfg, settingsCache, environ, diagnosis, paths2,
                   exported, nReg, inst, threads, dash>>

\* stray files in and at the projects directory
ProbeFiles ==
    { << WriteTest(DefaultProjectsDir), Blob >>,
      << DefaultProjectsDir, Blob >> }

\* legacy files and a backup of an earlier migration
LegacyFiles ==
    { << LegacyPaths[1], TextDoc(LegacyA) >>,
      << LegacyPaths[1], TextDoc(LegacyB) >>,
      << LegacyPaths[2], TextDoc(LegacyB) >>,
      << BackupPath(LegacyPaths[1]), TextDoc(LegacyA) >> }

\* a file appears (or is replaced) on disk
EnvPutFile(p, content) ==
    /\ nEnv < MaxEnv
    /\ Parent(p) \in dirs
    /\ p \notin dirs
    /\ files' = Upd(files, p, content)
    /\ last' = EnvCall
    /\ nEnv' = nEnv + 1
    /\ UNCHANGED <<paths, userPaths, cfg, settingsCache, dirs, readonly, environ,
                   diagnosis, paths2, exported, nReg, inst, threads, dash>>

ProtectableDirs == { Home \o <<"Documents">>, Home \o <<"Desktop">>, DefaultProjectsDir }

\* a directory loses its write permission
EnvProtect(d) ==
    /\ nEnv < MaxEnv
    /\ d \in dirs
    /\ d \notin readonly
    /\ readonly' = readonly \cup {d}
    /\ last' = EnvCall
    /\ nEnv' = nEnv + 1
    /\ UNCHANGED <<paths, userPaths, cfg, settingsCache, dirs, files, environ,
                   diagnosis, paths2, exported, nReg, inst, threads, dash>>

----------------------------------------------------------------------------
(* Construction of the registry in a starting process *)

CustomProjects == Home \o <<"work">>

\* defaults.txt next to the application, naming an existing custom directory
DefaultsTxt == << <<"custom_projects_dir", "=", "/", "home", "work">> >>

\* the disk a process starts on: a new machine; the Desktop folder not
\* writable, without and with a defaults.txt; the Documents folder not writable
BootDisks ==
    { [dirs |-> DiskBeforeBoot, files |-> EmptyMap, readonly |-> {}],
      [dirs |-> DiskBeforeBoot, files |-> EmptyMap, readonly |-> {Home \o <<"Desktop">>}],
      [dirs |-> DiskBeforeBoot \cup {CustomProjects},
       files |-> [x \in {DefaultsTxtCandidates[2]} |-> TextDoc(DefaultsTxt)],
       readonly |-> {Home \o <<"Desktop">>}],
      [dirs |-> DiskBeforeBoot, files |-> EmptyMap, readonly |-> {Home \o <<"Documents">>}] }

\* before the first PathRegistry() / get_instance() of the process
NotStarted(d) ==
    /\ paths = EmptyMap
    /\ userPaths = {}
    /\ cfg = EmptyMap
    /\ settingsCache = EmptyMap
    /\ dirs = d.dirs
    /\ files = d.files
    /\ readonly = d.readonly
    /\ environ = EmptyMap
    /\ diagnosis = NoReport
    /\ paths2 = EmptyMap
    /\ exported = EmptyMap
    /\ last = [op |-> "none", key |-> "", path |-> NoneP, ret |-> NoneP, ok |-> TRUE,
               out |-> NoOut,
               pre |-> [paths |-> EmptyMap, dirs |-> d.dirs, files |-> d.files,
                        paths2 |-> EmptyMap, cfg |-> EmptyMap, cache |-> EmptyMap]]
    /\ nEnv = 0
    /\ nReg = 0
    /\ inst = NoInstance
    /\ threads = NoThreads
    /\ dash = NoDash

InitBoot == \E d \in BootDisks : NotStarted(d)

\* __new__ and __init__ of the first call: _initialized is set before the
\* defaults are registered and the logger after them, so a mkdir that fails
\* during _register_default_paths ends the constructor with an AttributeError
\* and leaves the instance in cls._instance, partly filled
FirstConstructed(boot) ==
    /\ SetState(boot.S)
    /\ inst' = [made |-> TRUE, initialized |-> TRUE, logger |-> ~boot.crashed]
    /\ last' = Call("construct", "", NoneP, NoneP, ~boot.crashed, NoOut)

\* a later call: __new__ returns cls._instance, __init__ returns at once
SameReturned ==
    /\ last' = Call("construct", "", NoneP, NoneP, TRUE, NoOut)
    /\ UNCHANGED <<paths, userPaths, cfg, settingsCache, dirs, files, inst>>

\* PathRegistry() or PathRegistry.get_instance()
construct ==
    /\ IF inst.made THEN SameReturned
       ELSE FirstConstructed(init_op(dirs, files, readonly, AppBasePath))
    /\ UNCHANGED <<readonly, environ, diagnosis, paths2, exported, nEnv, nReg, threads, dash>>

----------------------------------------------------------------------------
(* A process started on a disk that holds defaults.txt files *)

DefaultsA == << <<"#", "defaults">>,
                <<>>,
                <<"custom_projects_dir", "=", "/", "home", "work">>,
                <<"garbage">>,
                <<"name", " ", "=", " ", "a">> >>

DefaultsB == << <<"name", "=", "b">>, <<"lang", "=", "ja">> >>

\* what a defaults.txt candidate can be: a text file, a text file whose
\* reading fails after its first lines, a file that is not text
DefaultsContents(lines) == { TextDoc(lines), TornDoc(SubSeq(lines, 1, Len(lines) - 1)), Blob }

\* the disks: each candidate absent or present
LoadSettings ==
    { [environ |-> EmptyMap, files |-> f, dirs |-> DiskBeforeBoot \cup {UserDocDir}] :
        f \in UNION { [D -> UNION { DefaultsContents(DefaultsA), DefaultsContents(DefaultsB) }] :
                        D \in SUBSET { DefaultsTxtCandidates[1], DefaultsTxtCandidates[2] } } }

InitLoad == \E b \in LoadSettings : Started(b, init_op(b.dirs, b.files, {}, AppBasePath))

----------------------------------------------------------------------------
(* Threads of one process obtaining the registry concurrently.  Each step  *)
(* is one statement of __new__, get_instance or __init__.                  *)

\* super().__new__(cls): _initialized is still the class attribute False
NewObject == [initialized |-> FALSE, hasPaths |-> FALSE, paths |-> EmptyMap, logger |-> FALSE]

\* the variables of the other processes and the disk
OutsideThreads ==
    <<paths, userPaths, cfg, settingsCache, files, readonly, environ, diagnosis, paths2,
      exported, last, nEnv, nReg, inst, dash>>

At(t, pc) == threads.th[t].pc = pc

\* a thread calls PathRegistry() ("ctor") or PathRegistry.get_instance() ("gi")
ThreadCall(t, via) ==
    /\ At(t, "idle")
    /\ threads' = [threads EXCEPT !.th[t].via = via,
                                  !.th[t].pc = IF via = "gi" THEN "gi_check" ELSE "new_check"]
    /\ UNCHANGED <<dirs, OutsideThreads>>

\* get_instance: if cls._instance is None
GiCheck(t) ==
    /\ At(t, "gi_check")
    /\ threads' = [threads EXCEPT !.th[t].pc = IF threads.instance = 0 THEN "new_check"
                                               ELSE "gi_return"]
    /\ UNCHANGED <<dirs, OutsideThreads>>

\* __new__: if cls._instance is None
NewCheck(t) ==
    /\ At(t, "new_check")
    /\ threads' = [threads EXCEPT !.th[t].pc = IF threads.instance = 0 THEN "new_create"
                                               ELSE "new_return"]
    /\ UNCHANGED <<dirs, OutsideThreads>>

\* __new__: cls._instance = super(PathRegistry, cls).__new__(cls)
NewCreate(t) ==
    /\ At(t, "new_create")
    /\ threads' = [threads EXCEPT !.objs = Append(@, NewObject),
                                  !.instance = Len(threads.objs) + 1,
                                  !.th[t].pc = "new_reset"]
    /\ UNCHANGED <<dirs, OutsideThreads>>

\* __new__: cls._instance._initialized = False
NewReset(t) ==
    /\ At(t, "new_reset")
    /\ threads' = [threads EXCEPT !.objs[threads.instance].initialized = FALSE,
                                  !.th[t].pc = "new_return"]
    /\ UNCHANGED <<dirs, OutsideThreads>>

\* __new__: return cls._instance; __init__ is then called on it
NewReturn(t) ==
    /\ At(t, "new_return")
    /\ threads' = [threads EXCEPT !.th[t].self = threads.instance,
                                  !.th[t].pc = "init_check"]
    /\ UNCHANGED <<dirs, OutsideThreads>>

\* __init__: if self._initialized: return
InitCheck(t) ==
    /\ At(t, "init_check")
    /\ threads' = [threads EXCEPT !.th[t].pc =
                       IF threads.objs[threads.th[t].self].initialized THEN "init_done"
                       ELSE "init_flag"]
    /\ UNCHANGED <<dirs, OutsideThreads>>

\* __init__: self._initialized = True
InitFlag(t) ==
    /\ At(t, "init_flag")
    /\ threads' = [threads EXCEPT !.objs[threads.th[t].self].initialized = TRUE,
                                  !.th[t].pc = "init_attrs"]
    /\ UNCHANGED <<dirs, OutsideThreads>>

\* __init__: self._paths = {} ... self._settings_cache = {}, then
\* _register_default_paths is entered
InitAttrs(t) ==
    /\ At(t, "init_attrs")
    /\ threads' = [threads EXCEPT !.objs[threads.th[t].self].paths = EmptyMap,
                                  !.objs[threads.th[t].self].hasPaths = TRUE,
                                  !.runs = @ + 1,
                                  !.th[t].k = 1,
                                  !.th[t].pc = "init_defaults"]
    /\ UNCHANGED <<dirs, OutsideThreads>>

\* the registry of object o and the disk
ObjState(o) ==
    [paths |-> threads.objs[o].paths, user |-> {}, cfg |-> EmptyMap, cache |-> EmptyMap,
     dirs |-> dirs, files |-> files]

DefaultRegistered(t, raises, R) ==
    /\ threads' = [threads EXCEPT !.objs[threads.th[t].self].paths = R.paths,
                                  !.th[t].k = @ + 1,
                                  !.th[t].pc = IF raises THEN "raised"
                                               ELSE IF threads.th[t].k = Len(Registrations(SecondBasePath))
                                                    THEN "init_logger" ELSE "init_defaults"]
    /\ dirs' = R.dirs

\* _register_default_paths: the k-th self.register_path(key, path)
InitDefault(t, reg) ==
    /\ At(t, "init_defaults")
    /\ DefaultRegistered(t,
          RegisterRaises(ObjState(threads.th[t].self), readonly, reg[1], reg[2],
                         threads.objs[threads.th[t].self].logger),
          register_path_op(ObjState(threads.th[t].self), readonly, reg[1], reg[2]))
    /\ UNCHANGED OutsideThreads

\* __init__: self.logger = logging.getLogger(__name__)
InitLogger(t) ==
    /\ At(t, "init_logger")
    /\ threads' = [threads EXCEPT !.objs[threads.th[t].self].logger = TRUE,
                                  !.th[t].pc = "init_done"]
    /\ UNCHANGED <<dirs, OutsideThreads>>

\* __init__ returns: PathRegistry() hands self to the caller, get_instance
\* goes on to its assignment
InitDone(t) ==
    /\ At(t, "init_done")
    /\ threads' = IF threads.th[t].via = "gi"
                  THEN [threads EXCEPT !.th[t].pc = "gi_assign"]
                  ELSE [threads EXCEPT !.th[t].got = threads.th[t].self,
                                       !.th[t].pc = "done"]
    /\ UNCHANGED <<dirs, OutsideThreads>>

\* get_instance: cls._instance = cls()
GiAssign(t) ==
    /\ At(t, "gi_assign")
    /\ threads' = [threads EXCEPT !.instance = threads.th[t].self,
                                  !.th[t].pc = "gi_return"]
    /\ UNCHANGED <<dirs, OutsideThreads>>

\* get_instance: return cls._instance
GiReturn(t) ==
    /\ At(t, "gi_return")
    /\ threads' = [threads EXCEPT !.th[t].got = threads.instance,
                                  !.th[t].pc = "done"]
    /\ UNCHANGED <<dirs, OutsideThreads>>

----------------------------------------------------------------------------
(* Start-up data seeding (src/main.py).  The seeding functions work on the  *)
(* disk only.  A result is [ok, S]: the value returned and the disk.        *)

InitialData == UserDocDir \o <<"initialdata">>
Installer == Home \o <<"Downloads", "ProjectSuite_Setup_1.exe">>
InstallerData == Home \o <<"Downloads", "initialdata">>
CplDir == UserDocDir \o <<"CreateProjectList">>
CplConfig == CplDir \o <<"config", "config.json">>
AppCpl == AppBasePath \o <<"CreateProjectList">>
InitCompleteFlag == UserDocDir \o <<".init_complete">>
SeedSubdirs == <<"exports", "master", "projects", "templates">>

\* a data file with the given content
Data(tag) == [Blob EXCEPT !.lines = << <<tag>> >>]

\* the file p can be created or overwritten
CanWrite(S, ro, p) ==
    /\ p \notin S.dirs
    /\ Parent(p) \in S.dirs
    /\ p \in DOMAIN S.files \/ Parent(p) \notin ro

\* open(p, 'w') and write; a failure raises, the callers catch it
WriteFile(S, ro, p, content) ==
    IF CanWrite(S, ro, p) THEN [S EXCEPT !.files = Upd(@, p, content)] ELSE S

\* the file shutil.copy2(src, dst) writes: dst, or the file of the same
\* name inside dst when dst is a directory
Copy2Target(S, src, dst) == IF dst \in S.dirs THEN dst \o <<src[Len(src)]>> ELSE dst

\* shutil.copy2(src, dst): overwrites an existing file
Copy2(S, ro, src, dst) == WriteFile(S, ro, Copy2Target(S, src, dst), S.files[src])

RECURSIVE RunSteps(_, _, _)
\* a run of statements, each <<"dir", p>>: p.mkdir(parents=True, exist_ok=True),
\* whose exception ends the function, or <<"file", p, tag>>: if not
\* p.exists(), create p inside a try block of its own
RunSteps(S, ro, steps) ==
    IF steps = <<>> THEN [ok |-> TRUE, S |-> S]
    ELSE IF Head(steps)[1] = "dir"
         THEN IF Mkdir(S, ro, Head(steps)[2]).ok
              THEN RunSteps([S EXCEPT !.dirs = Mkdir(S, ro, Head(steps)[2]).dirs],
                            ro, Tail(steps))
              ELSE [ok |-> FALSE, S |-> S]
         ELSE RunSteps(IF FsExists(S, Head(steps)[2]) THEN S
                       ELSE WriteFile(S, ro, Head(steps)[2], Data(Head(steps)[3])),
                       ro, Tail(steps))

\* the files below directory d
FilesUnder(S, d) == { x \in DOMAIN S.files : IsPrefix(d, x) }

\* the files below the four data sub-directories of src
SubdirFiles(S, src) ==
    { x \in DOMAIN S.files : \E i \in 1..Len(SeedSubdirs) : IsPrefix(src \o <<SeedSubdirs[i]>>, x) }

\* the files of srcs that get copied: the destination does not exist and
\* can be created
Copied(S, ro, srcs, src, dst) ==
    { x \in srcs : /\ ~OnDisk(S, Moved(x, src, dst))
                   /\ Mkdir(S, ro, Parent(Moved(x, src, dst))).ok
                   /\ Parent(Moved(x, src, dst)) \notin ro }

\* for src_file in src.glob("**/*"): dst_file.parent.mkdir(parents=True,
\* exist_ok=True); if not dst_file.exists(): shutil.copy2(src_file, dst_file)
CopyMissing(S, ro, srcs, src, dst) ==
    [S EXCEPT
       !.dirs = S.dirs \cup UNION { Mkdir(S, ro, Parent(Moved(x, src, dst))).dirs : x \in srcs },
       !.files = [y \in DOMAIN S.files \cup { Moved(x, src, dst) : x \in Copied(S, ro, srcs, src, dst) }
                    |-> IF y \in DOMAIN S.files THEN S.files[y]
                        ELSE S.files[CHOOSE x \in srcs : Moved(x, src, dst) = y]]]

Failed(m) == [ok |-> FALSE, S |-> m.S]

FlagWritten(S, ro) == WriteFile(S, ro, InitCompleteFlag, Data("init"))

SeedTargetDirs ==
    << <<"dir", UserDocDir>>, <<"dir", PMData>>,
       <<"dir", PMData \o <<"exports">> >>, <<"dir", PMData \o <<"master">> >>,
       <<"dir", PMData \o <<"projects">> >>, <<"dir", PMData \o <<"templates">> >>,
       <<"dir", UserDocDir \o <<"logs">> >>, <<"dir", UserDocDir \o <<"temp">> >>,
       <<"dir", UserDocDir \o <<"backup">> >> >>

\* 1. the database file: copied whether or not the destination exists
InstallerDbCopied(S, ro) ==
    IF InstallerData \o <<"projects.db">> \in DOMAIN S.files
    THEN Copy2(S, ro, InstallerData \o <<"projects.db">>, DefaultDbPath)
    ELSE S

InstallerSeeded(m, ro) ==
    IF ~m.ok THEN Failed(m)
    ELSE [ok |-> TRUE,
          S |-> FlagWritten(CopyMissing(InstallerDbCopied(m.S, ro), ro,
                                        SubdirFiles(m.S, InstallerData), InstallerData, PMData),
                            ro)]

\* find_installer_and_copy_initialdata(): an installer found in a search
\* path with an initialdata folder next to it
find_installer_and_copy_initialdata_op(S, ro) ==
    IF Installer \in DOMAIN S.files /\ InstallerData \in S.dirs
    THEN InstallerSeeded(RunSteps(S, ro, SeedTargetDirs), ro)
    ELSE [ok |-> FALSE, S |-> S]

CriticalSearchPaths ==
    << Home \o <<"Downloads", "installer", "initialdata">>,
       InitialData,
       Cwd \o <<"installer", "initialdata">> >>

CriticalFiles ==
    << <<"projects.db">>, <<"master", "factory_info.csv">>,
       <<"exports", "dashboard.csv">>, <<"exports", "projects.csv">> >>

\* the search paths that hold the file rel
Sources(S, rel) ==
    { i \in 1..Len(CriticalSearchPaths) : CriticalSearchPaths[i] \o rel \in DOMAIN S.files }

FirstSource(S, rel) ==
    CriticalSearchPaths[CHOOSE i \in Sources(S, rel) : \A j \in Sources(S, rel) : i <= j] \o rel

RECURSIVE CopyCritical(_, _, _)
\* the loop over critical_files: each file is copied from the first search
\* path that holds it, over whatever is at the destination.  C = [S, n]
CopyCritical(C, ro, rels) ==
    IF rels = <<>> THEN C
    ELSE IF \/ Sources(C.S, Head(rels)) = {}
            \/ ~Mkdir(C.S, ro, Parent(PMData \o Head(rels))).ok
            \/ ~CanWrite(C.S, ro, Copy2Target(C.S, Head(rels), PMData \o Head(rels)))
         THEN CopyCritical(C, ro, Tail(rels))
         ELSE CopyCritical([S |-> Copy2(C.S, ro, FirstSource(C.S, Head(rels)),
                                        PMData \o Head(rels)),
                            n |-> C.n + 1],
                           ro, Tail(rels))

CriticalCopied(C) == [ok |-> C.n > 0, S |-> C.S]

CriticalDirsMade(m, ro) ==
    IF ~m.ok THEN Failed(m)
    ELSE CriticalCopied(CopyCritical([S |-> m.S, n |-> 0], ro, CriticalFiles))

\* try_copy_critical_files()
try_copy_critical_files_op(S, ro) ==
    CriticalDirsMade(RunSteps(S, ro, << <<"dir", PMData>>, <<"dir", PMData \o <<"master">> >>,
                                        <<"dir", PMData \o <<"exports">> >> >>),
                     ro)
SampleDirs ==
    << <<"dir", UserDocDir>>, <<"dir", PMData>>, <<"dir", CplDir>>,
       <<"dir", CplDir \o <<"config">> >>, <<"dir", CplDir \o <<"temp">> >>,
       <<"dir", CplDir \o <<"templates">> >>, <<"dir", CplDir \o <<"cache">> >>,
       <<"dir", UserDocDir \o <<"logs">> >>, <<"dir", UserDocDir \o <<"temp">> >>,
       <<"dir", UserDocDir \o <<"backup">> >> >>

SampleSubdirs ==
    << <<"dir", PMData \o <<"exports">> >>, <<"dir", PMData \o <<"master">> >>,
       <<"dir", PMData \o <<"projects">> >>, <<"dir", PMData \o <<"templates">> >> >>

TemplateFile == PMData \o <<"templates", "999. metadata", "template.csv">>

\* create_minimal_sample_files(target_data_dir)
MinimalSteps ==
    << <<"file", DefaultDbPath, "empty">>,
       <<"dir", PMData \o <<"master">> >>,
       <<"file", PMData \o <<"master", "factory_info.csv">>, "sample">>,
       <<"dir", PMData \o <<"exports">> >>,
       <<"file", PMData \o <<"exports", "dashboard.csv">>, "sample">>,
       <<"file", PMData \o <<"exports", "projects.csv">>, "sample">>,
       <<"dir", PMData \o <<"templates">> >>,
       <<"dir", Parent(TemplateFile)>>,
       <<"file", TemplateFile, "sample">> >>

\* create_cpl_config_file(cpl_dir): nothing when the file exists
create_cpl_config_file(S, ro) ==
    IF FsExists(S, CplConfig) THEN S ELSE WriteFile(S, ro, CplConfig, Data("cpl-default"))

SampleFinished(m, ro) ==
    IF ~m.ok THEN Failed(m)
    ELSE [ok |-> TRUE, S |-> FlagWritten(create_cpl_config_file(m.S, ro), ro)]

SampleMinimal(S, ro) == SampleFinished(RunSteps(S, ro, MinimalSteps), ro)

\* the copy from ~/Documents/ProjectSuite/initialdata: only files that do
\* not exist at the destination
SampleCopied(m, ro) ==
    IF ~m.ok THEN Failed(m)
    ELSE SampleMinimal(CopyMissing(CopyMissing(m.S, ro, SubdirFiles(m.S, InitialData),
                                               InitialData, PMData),
                                   ro, FilesUnder(m.S, InitialData \o <<"CreateProjectList">>),
                                   InitialData \o <<"CreateProjectList">>, CplDir),
                       ro)

SampleDirsMade(m, ro) ==
    IF ~m.ok THEN Failed(m)
    ELSE IF InitialData \in m.S.dirs THEN SampleCopied(RunSteps(m.S, ro, SampleSubdirs), ro)
         ELSE SampleMinimal(m.S, ro)

\* the disk after steps 1 and 2 of initialize_sample_data
AfterInstaller(fi, ro) == IF fi.ok THEN fi.S ELSE try_copy_critical_files_op(fi.S, ro).S

\* initialize_sample_data()
initialize_sample_data_op(S, ro) ==
    SampleDirsMade(RunSteps(AfterInstaller(find_installer_and_copy_initialdata_op(S, ro), ro),
                            ro, SampleDirs),
                   ro)

\* one entry of files_to_migrate: copied when the source exists and the
\* destination does not
MigrateOne(S, ro, rel) ==
    IF /\ AppCpl \o rel \in DOMAIN S.files
       /\ ~OnDisk(S, CplDir \o rel)
       /\ Mkdir(S, ro, Parent(CplDir \o rel)).ok
    THEN Copy2([S EXCEPT !.dirs = Mkdir(S, ro, Parent(CplDir \o rel)).dirs], ro,
               AppCpl \o rel, CplDir \o rel)
    ELSE S

\* migrate_cpl_files()
migrate_cpl_files_op(S, ro) ==
    create_cpl_config_file(MigrateOne(MigrateOne(S, ro, <<"config", "config.json">>),
                                      ro, <<"defaults.txt">>),
                           ro)

\* check_first_run()
check_first_run(S, ro) ==
    IsFalsy(get_path_op(S, ro, "USER_DATA_DIR", NoneP).ret)
    \/ ~FsExists(S, get_path_op(S, ro, "USER_DATA_DIR", NoneP).ret \o <<".init_complete">>)

Seeded(op, r) ==
    /\ SetState(r.S)
    /\ last' = Call(op, "", NoneP, NoneP, r.ok, NoOut)

\* main(): try_copy_critical_files() on every normal start, and again from
\* setup_environment on every start that is not the first
try_copy_critical_files ==
    /\ Seeded("try_copy_critical_files", try_copy_critical_files_op(Cur, readonly))
    /\ UNCHANGED <<readonly, environ, diagnosis, paths2, exported, nEnv, nReg, inst, threads, dash>>

\* setup_environment on the first start, and the init-data command
initialize_sample_data ==
    /\ Seeded("initialize_sample_data", initialize_sample_data_op(Cur, readonly))
    /\ UNCHANGED <<readonly, environ, diagnosis, paths2, exported, nEnv, nReg, inst, threads, dash>>

migrate_cpl_files ==
    /\ Seeded("migrate_cpl_files", [ok |-> TRUE, S |-> migrate_cpl_files_op(Cur, readonly)])
    /\ UNCHANGED <<readonly, environ, diagnosis, paths2, exported, nEnv, nReg, inst, threads, dash>>

\* the seeding part of setup_environment
setup_environment ==
    /\ Seeded("setup_environment",
              [ok |-> TRUE,
               S |-> migrate_cpl_files_op(
                         IF check_first_run(Cur, readonly)
                         THEN initialize_sample_data_op(Cur, readonly).S
                         ELSE try_copy_critical_files_op(Cur, readonly).S,
                         readonly)])
    /\ UNCHANGED <<readonly, environ, diagnosis, paths2, exported, nEnv, nReg, inst, threads, dash>>

\* the files of an initialdata folder, below the directory d
SeedKit(d) ==
    { d \o <<"projects.db">>, d \o <<"master", "factory_info.csv">>,
      d \o <<"templates", "t.csv">>, d \o <<"CreateProjectList", "config", "config.json">> }

\* the files the user works with
UserFiles ==
    { DefaultDbPath, PMData \o <<"master", "factory_info.csv">>,
      PMData \o <<"templates", "t.csv">>, CplConfig }

\* where seed data lies at start-up: nowhere, in the user data directory,
\* next to an installer in Downloads, in the application directory
SeedSources ==
    { {}, SeedKit(InitialData), SeedKit(InstallerData) \cup {Installer},
      { AppCpl \o <<"config", "config.json">> } }

\* the data of earlier runs: none, or the user's files and the mark of a
\* completed first run
UserData == { {}, {DefaultDbPath}, UserFiles \cup {InitCompleteFlag} }

SeedDisk(src, usr) ==
    [environ |-> EmptyMap,
     files |-> [x \in src \cup usr |-> IF x \in usr THEN Data("user") ELSE Data("seed")],
     dirs |-> DiskBeforeBoot \cup UNION { Prefixes(Parent(x)) : x \in src \cup usr }]

InitSeed ==
    \E src \in SeedSources, usr \in UserData :
        Started(SeedDisk(src, usr),
                init_op(SeedDisk(src, usr).dirs, SeedDisk(src, usr).files, {}, AppBasePath))

----------------------------------------------------------------------------
(* ConfigManager of CreateProjectList (utils/config_manager.py).  cf is the *)
(* config_file of the object.  A result is [ok, written, S]: ok = FALSE     *)
(* stands for the exception that leaves the method.                         *)

\* self.config_file.with_suffix('.bak')
WithSuffixBak(cf) == Parent(cf) \o <<"config.bak">>

\* the JSON text json.dump(self.config, f) writes
CplSaved == JsonDoc(<< <<"last_update", <<"now">> >> >>)

Raised(S, written) == [ok |-> FALSE, written |-> written, S |-> S]

\* the except branch of save_config: if 'backup_path' in locals() and
\* backup_path.exists(): shutil.copy2(backup_path, self.config_file); raise
Restored(S, ro, cf, bound) ==
    IF bound /\ WithSuffixBak(cf) \in DOMAIN S.files THEN Copy2(S, ro, WithSuffixBak(cf), cf)
    ELSE S

\* save_config when config_file does not exist: backup_path is never
\* assigned, so `if backup_path.exists()` raises UnboundLocalError after the
\* file was written
SaveNew(S, ro, cf) ==
    IF ~Mkdir(S, ro, Parent(cf)).ok THEN Raised(S, FALSE)
    ELSE Raised(WriteFile([S EXCEPT !.dirs = Mkdir(S, ro, Parent(cf)).dirs], ro, cf, CplSaved),
                CanWrite([S EXCEPT !.dirs = Mkdir(S, ro, Parent(cf)).dirs], ro, cf))

\* the end of save_config: backup_path.unlink()
BackupRemoved(S, ro, cf) ==
    IF WithSuffixBak(cf) \in DOMAIN S.files /\ Parent(cf) \notin ro
    THEN [ok |-> TRUE, written |-> TRUE,
          S |-> [S EXCEPT !.files = Restrict(@, DOMAIN @ \ {WithSuffixBak(cf)})]]
    ELSE Raised(Restored(S, ro, cf, TRUE), TRUE)

\* save_config when config_file exists: backup, write, remove the backup
SaveOver(S, ro, cf) ==
    IF cf \notin DOMAIN S.files \/ ~CanWrite(S, ro, Copy2Target(S, cf, WithSuffixBak(cf)))
    THEN Raised(Restored(S, ro, cf, TRUE), FALSE)
    ELSE BackupRemoved(WriteFile(Copy2(S, ro, cf, WithSuffixBak(cf)), ro, cf, CplSaved), ro, cf)

\* ConfigManager.save_config()
save_config_op(S, ro, cf) ==
    IF FsExists(S, cf) THEN SaveOver(S, ro, cf) ELSE SaveNew(S, ro, cf)

\* ConfigManager.load_config(): a file that does not parse, or no file,
\* leads to save_config()
cpl_load_config_op(S, ro, cf) ==
    IF cf \in DOMAIN S.files /\ S.files[cf].kind = "json"
    THEN [ok |-> TRUE, written |-> FALSE, S |-> S]
    ELSE save_config_op(S, ro, cf)

CplSavedFirst(r, ro, cf) == IF ~r.ok THEN r ELSE cpl_load_config_op(r.S, ro, cf)

\* ConfigManager.__init__(config_file)
cpl_init_op(S, ro, cf) ==
    IF ~Mkdir(S, ro, Parent(cf)).ok THEN Raised(S, FALSE)
    ELSE IF ~FsExists(S, cf)
         THEN CplSavedFirst(save_config_op([S EXCEPT !.dirs = Mkdir(S, ro, Parent(cf)).dirs],
                                           ro, cf),
                            ro, cf)
         ELSE cpl_load_config_op(S, ro, cf)

CplDone(op, cf, r) ==
    /\ SetState(r.S)
    /\ last' = Call(op, "", cf, IF r.written THEN cf ELSE NoneP, r.ok, NoOut)

cpl_init(cf) ==
    /\ CplDone("cpl_init", cf, cpl_init_op(Cur, readonly, cf))
    /\ UNCHANGED <<readonly, environ, diagnosis, paths2, exported, nEnv, nReg, inst, threads, dash>>

cpl_save_config(cf) ==
    /\ CplDone("cpl_save_config", cf, save_config_op(Cur, readonly, cf))
    /\ UNCHANGED <<readonly, environ, diagnosis, paths2, exported, nEnv, nReg, inst, threads, dash>>

\* the config files of the package and of the user data directory
CplConfigFiles == { CplConfig, AppCpl \o <<"config", "config.json">> }

\* disks at the start of CreateProjectList: no config file, a config file,
\* a config file that does not parse, each with or without a backup left by
\* an earlier save
CplDisks ==
    { [environ |-> EmptyMap, files |-> f,
       dirs |-> DiskBeforeBoot \cup UNION { Prefixes(Parent(x)) : x \in DOMAIN f }] :
        f \in UNION { [D -> {CplSaved, Data("corrupt")}] :
                        D \in SUBSET {CplConfig, WithSuffixBak(CplConfig)} } }

InitCpl == \E b \in CplDisks : Started(b, init_op(b.dirs, b.files, {}, AppBasePath))

----------------------------------------------------------------------------
(* DashboardConnector (ProjectManager/src/integration/dashboard_connector.py). *)
(* d = [process, alive, started]: the Popen object the connector holds (0:  *)
(* None), the child processes it started that still run, and their number. *)

\* self.dashboard_process and self.dashboard_process.poll() is None
HoldsRunning(d) == d.process # 0 /\ d.process \in d.alive

\* launch_dashboard that starts a child on every call
launch_dashboard_always(d) ==
    [process |-> d.started + 1, alive |-> d.alive \cup {d.started + 1},
     started |-> d.started + 1]

\* launch_dashboard(), once update_dashboard() and Popen succeeded: the held
\* process is reused when it runs, else a child is started and held
launch_dashboard_op(d) ==
    IF HoldsRunning(d) THEN d
    ELSE [process |-> d.started + 1, alive |-> d.alive \cup {d.started + 1},
          started |-> d.started + 1]

\* shutdown(): terminate() and wait(5); how: "term" the child exits in time
\* and stays held; "kill" wait times out, kill() and wait(2) end it and the
\* attribute is set to None; "stuck" wait(2) times out too, the exception is
\* logged
shutdown_op(d, how) ==
    IF d.process = 0 THEN d
    ELSE IF how = "term" \/ d.process \notin d.alive
         THEN [d EXCEPT !.alive = @ \ {d.process}]
    ELSE IF how = "kill"
         THEN [d EXCEPT !.alive = @ \ {d.process}, !.process = 0]
    ELSE d

\* shutdown_dashboard(): the POST to /shutdown may end the server (answered),
\* then shutdown()
shutdown_dashboard_op(d, answered, how) ==
    shutdown_op(IF answered THEN [d EXCEPT !.alive = @ \ {d.process}] ELSE d, how)

DashDone(op, key, ok) ==
    /\ last' = Call(op, key, NoneP, NoneP, ok, NoOut)
    /\ UNCHANGED <<paths, userPaths, cfg, settingsCache, dirs, files, readonly, environ,
                   diagnosis, paths2, exported, nEnv, nReg, inst, threads>>

\* raises: update_dashboard() or Popen failed, nothing was started
launch_dashboard(raises) ==
    /\ dash.started < MaxProc
    /\ dash' = IF raises THEN dash ELSE launch_dashboard_op(dash)
    /\ DashDone("launch_dashboard",
                IF raises THEN "raised" ELSE IF HoldsRunning(dash) THEN "reused" ELSE "started",
                ~raises)

shutdown(how) ==
    /\ dash' = shutdown_op(dash, how)
    /\ DashDone("shutdown", how, TRUE)

shutdown_dashboard(answered, how) ==
    /\ dash' = shutdown_dashboard_op(dash, answered, how)
    /\ DashDone("shutdown_dashboard", how, TRUE)

\* the dashboard process ends by itself
EnvChildExits(p) ==
    /\ p \in dash.alive
    /\ dash' = [dash EXCEPT !.alive = @ \ {p}]
    /\ DashDone("env", "", TRUE)

ShutdownOutcomes == {"term", "kill", "stuck"}

----------------------------------------------------------------------------
(* Specifications *)

GetKeys == {"PROJECTS_DIR", "LOGS_DIR", "DB_PATH", "projects_dir", "NO_SUCH_KEY"}
GetDefaults == { NoneP, Home \o <<"fallback">> }
EnsureKeys == {"PROJECTS_DIR", "DB_PATH", "NO_SUCH_KEY"}
ExportTargets == { NoneP, Home \o <<"Desktop", "paths.json">>, <<"bare.json">> }
ImportSources == { SettingsJson, Home \o <<"Desktop", "paths.json">> }

ExportRegistrations == { <<"PROJECTS_DIR", OldProductProjects>>,
                         <<"projects_dir", <<"data", "..", "out">> >> }

\* lookup, healing, diagnosis and repair on a disk that changes under them
Next ==
    \/ \E key \in InputKeys, path \in InputPaths : register_path(key, path)
    \/ \E key \in GetKeys, default \in GetDefaults : get_path(key, default)
    \/ \E key \in EnsureKeys : ensure_directory(key)
    \/ \E d \in RemovableDirs : EnvRemoveTree(d)
    \/ EnvMoveDir(OldProductProjects, RenamedProjects)
    \/ \E d \in ProtectableDirs : EnvProtect(d)

Spec == Init /\ [][Next]_vars

\* diagnosis and repair, as run at start-up and from the path dialog
NextRepair ==
    \/ \E key \in InputKeys, path \in InputPaths : register_path(key, path)
    \/ diagnose
    \/ \E issues \in {NoIssues, diagnosis.issues} : auto_repair(issues)
    \/ \E d \in RemovableDirs : EnvRemoveTree(d)
    \/ \E pf \in ProbeFiles : EnvPutFile(pf[1], pf[2])
    \/ \E d \in ProtectableDirs : EnvProtect(d)

SpecRepair == Init /\ [][NextRepair]_vars

\* migration of legacy flat files
NextMigrate ==
    \/ \E path \in {OldProductProjects, <<>>} : register_path("PROJECTS_DIR", path)
    \/ migrate_legacy_config
    \/ \E key \in {"PROJECTS_DIR", "DB_PATH"} : get_path(key, NoneP)
    \/ \E pf \in LegacyFiles : EnvPutFile(pf[1], pf[2])
    \/ EnvProtect(Home)

SpecMigrate == Init /\ [][NextMigrate]_vars

\* hand-off of the configuration to a second process
NextExport ==
    \/ \E kp \in ExportRegistrations : register_path(kp[1], kp[2])
    \/ \E path \in ExportTargets : export_config(path)
    \/ boot2
    \/ \E path \in ImportSources : import2(path)
    \/ EnvProtect(Home \o <<"Desktop">>)

SpecExport == Init /\ [][NextExport]_vars

BootKeys == {"PROJECTS_DIR", "OUTPUT_BASE_DIR"}
BootGetKeys == {"PROJECTS_DIR", "OUTPUT_BASE_DIR", "NO_SUCH_KEY"}

\* start of a process: construction, then registrations and lookups through
\* get_instance()
NextBoot ==
    \/ construct
    \/ \E key \in BootKeys, path \in {OldProductProjects, CustomProjects} :
          register_path(key, path)
    \/ \E key \in BootGetKeys, default \in GetDefaults : get_path(key, default)

SpecBoot == InitBoot /\ [][NextBoot]_vars

\* start of a process whose threads obtain the registry concurrently
NextThreads ==
    \E t \in Threads :
        \/ \E via \in {"ctor", "gi"} : ThreadCall(t, via)
        \/ GiCheck(t)
        \/ NewCheck(t)
        \/ NewCreate(t)
        \/ NewReset(t)
        \/ NewReturn(t)
        \/ InitCheck(t)
        \/ InitFlag(t)
        \/ InitAttrs(t)
        \/ InitDefault(t, Registrations(SecondBasePath)[threads.th[t].k])
        \/ InitLogger(t)
        \/ InitDone(t)
        \/ GiAssign(t)
        \/ GiReturn(t)

SpecThreads == Init /\ [][NextThreads]_vars

DiagnoseKeys == {"USER_DATA_DIR", "LOGS_DIR"}
DiagnosePaths == { <<>>, SettingsJson, OldProductProjects }

\* diagnosis of a store whose watched keys were set from the path dialog, on
\* a disk the user changed
NextDiagnose ==
    \/ \E key \in DiagnoseKeys, path \in DiagnosePaths : register_path(key, path)
    \/ diagnose
    \/ \E d \in RemovableDirs : EnvRemoveTree(d)
    \/ \E pf \in ProbeFiles : EnvPutFile(pf[1], pf[2])

SpecDiagnose == Init /\ [][NextDiagnose]_vars

\* the settings are loaded on first use, after the disk may have changed
NextLoad ==
    \/ get_config
    \/ \E key \in BootGetKeys, default \in GetDefaults : get_path(key, default)
    \/ \E d \in {UserDocDir, CustomProjects} : EnvRemoveTree(d)

SpecLoad == InitLoad /\ [][NextLoad]_vars

\* the files the user changes between two starts
UserEdits == { <<DefaultDbPath, Data("user")>>, <<TemplateFile, Data("user")>> }

\* starts of the application on a disk the user works on
NextSeed ==
    \/ try_copy_critical_files
    \/ initialize_sample_data
    \/ migrate_cpl_files
    \/ setup_environment
    \/ \E pf \in UserEdits : EnvPutFile(pf[1], pf[2])

SpecSeed == InitSeed /\ [][NextSeed]_vars

\* CreateProjectList starts and saves its settings
NextCpl ==
    \/ \E cf \in CplConfigFiles : cpl_init(cf)
    \/ \E cf \in CplConfigFiles : cpl_save_config(cf)
    \/ EnvProtect(Parent(CplConfig))
    \/ EnvPutFile(CplConfig, Data("corrupt"))

SpecCpl == InitCpl /\ [][NextCpl]_vars

\* the dashboard button, the window close handler and the child itself
NextDash ==
    \/ \E raises \in BOOLEAN : launch_dashboard(raises)
    \/ \E how \in ShutdownOutcomes : shutdown(how)
    \/ \E answered \in BOOLEAN, how \in ShutdownOutcomes : shutdown_dashboard(answered, how)
    \/ \E p \in 1..MaxProc : EnvChildExits(p)

SpecDash == Init /\ [][NextDash]_vars
TypeOK ==
    /\ DOMAIN paths \subseteq DefaultKeys \cup ExtraKeys
    /\ Root \in dirs
    /\ \A x \in dirs : Parent(x) \in dirs
    /\ \A x \in DOMAIN files : Parent(x) \in dirs /\ x \notin dirs
    /\ nEnv \in 0..MaxEnv
    /\ nReg \in 0..MaxReg
    /\ inst \in [made : BOOLEAN, initialized : BOOLEAN, logger : BOOLEAN]
    /\ threads.instance \in 0..Len(threads.objs)
    /\ dash.started \in 0..MaxProc
    /\ dash.process \in 0..dash.started
    /\ dash.alive \subseteq 1..dash.started

----------------------------------------------------------------------------
(* Claims *)

\* a get_path(k) that directly follows register_path(k, p)
GetFollowsRegister ==
    /\ last.op = "register_path"
    /\ last'.op = "get_path"
    /\ last'.key = last.key

\* C1 as stated: for every key k and path p, the get_path(k) that follows
\* register_path(k, p) returns normalize(p), the absolute normalized form of p.
C1_ReturnsNormalized ==
    [][GetFollowsRegister => last'.ret = Normalize(last.path)]_vars

\* C1 (amended): for every key k and path p, and whatever was stored under k
\* before, the get_path(k) that follows register_path(k, p) returns p exactly
\* as it was passed; register_path stores the string verbatim.
C1_ReturnsVerbatim ==
    [][GetFollowsRegister => last'.ret = last.path]_vars

\* a relative path with ".." was registered and is now stored under its key
C1_Witness ==
    /\ last.op = "register_path"
    /\ last.key = "projects_dir"
    /\ last.path = <<"data", "..", "out">>
    /\ paths["projects_dir"] = <<"data", "..", "out">>
    /\ Normalize(last.path) = <<"/", "app", "out">>

----------------------------------------------------------------------------
(* C2 *)

\* _paths of a registry just constructed by the second process
FreshStore2 == init_op(DiskBeforeBoot, EmptyMap, {}, SecondBasePath).S.paths

\* store2 was newly constructed and has just imported a file that store1 exported
ImportedExport ==
    /\ last.op = "import2"
    /\ last.ok
    /\ last.pre.paths2 = FreshStore2
    /\ Normalize(last.path) \in DOMAIN exported

\* C2: export/import round trip: after export_config(f) on store1 and
\* import_config(f) on a newly constructed store2, store2.get_all_paths()
\* equals what store1.get_all_paths() was when f was written.
C2_RoundTrip == ImportedExport => paths2 = exported[Normalize(last.path)]

\* the round trip carried a caller's registration into the second process
C2_Witness ==
    /\ ImportedExport
    /\ \/ "projects_dir" \in DOMAIN paths2
       \/ paths2["PROJECTS_DIR"] = OldProductProjects
    /\ paths2["ROOT"] = AppBasePath

----------------------------------------------------------------------------
(* C3 *)

\* C3 as stated: diagnose() mutates nothing: the registry store and the files
\* and directories on disk are the same after diagnose() as before.
C3_DiagnoseMutatesNothing ==
    last.op = "diagnose" =>
        /\ paths = last.pre.paths
        /\ dirs = last.pre.dirs
        /\ files = last.pre.files

----------------------------------------------------------------------------
(* C4 *)

IsMissingDirectory(issue) == issue.type \in {"missing_dir", "projects_dir_missing"}

InList(list, issue) ==
    \E j \in 1..Len(list) : list[j].key = issue.key /\ list[j].path = issue.path

\* auto_repair has just worked on a non-empty report of missing directories only
RepairedMissingDirs ==
    /\ last.op = "auto_repair"
    /\ last.out.given # <<>>
    /\ \A i \in 1..Len(last.out.given) : IsMissingDirectory(last.out.given[i])

\* C4 as stated: after auto_repair on a report whose issues are all
\* missing-directory issues, every target directory exists and failed is empty.
C4_AllCreated ==
    RepairedMissingDirs =>
        /\ \A i \in 1..Len(last.out.given) : Normalize(last.out.given[i].path) \in dirs
        /\ last.out.failed = <<>>

\* C4 (amended): after auto_repair on a report of missing-directory issues,
\* every issue is either repaired, and then its directory exists, or its
\* mkdir raised, and then it is in failed and its directory does not exist;
\* failed is empty exactly when every creation succeeded.
C4_CreatedOrFailed ==
    RepairedMissingDirs =>
        \A i \in 1..Len(last.out.given) :
            \/ /\ Normalize(last.out.given[i].path) \in dirs
               /\ InList(last.out.repaired, last.out.given[i])
               /\ ~InList(last.out.failed, last.out.given[i])
            \/ /\ Normalize(last.out.given[i].path) \notin dirs
               /\ InList(last.out.failed, last.out.given[i])
               /\ ~InList(last.out.repaired, last.out.given[i])

\* a missing projects directory was recreated by auto_repair
C4_Witness ==
    /\ RepairedMissingDirs
    /\ last.out.failed = <<>>
    /\ \E i \in 1..Len(last.out.given) :
          Normalize(last.out.given[i].path) \notin last.pre.dirs
    /\ \A i \in 1..Len(last.out.given) : Normalize(last.out.given[i].path) \in dirs

----------------------------------------------------------------------------
(* C5 *)

\* C5 as stated: every issue handed to auto_repair that is not flagged fixable
\* appears in failed, and no input issue is missing from both lists.
C5_NothingDropped ==
    last.op = "auto_repair" =>
        \A i \in 1..Len(last.out.given) :
            /\ ~last.out.given[i].fixable => InList(last.out.failed, last.out.given[i])
            /\ InList(last.out.repaired, last.out.given[i])
                  \/ InList(last.out.failed, last.out.given[i])

----------------------------------------------------------------------------
(* C6 *)

\* the key resolved to a non-empty path whose directory existed before the call
DirExistedBefore ==
    /\ last.key \in DOMAIN last.pre.paths
    /\ ~IsFalsy(last.pre.paths[last.key])
    /\ Normalize(last.pre.paths[last.key]) \in last.pre.dirs

\* C6: ensure_directory(k) is idempotent: it returns true only with the
\* directory of k in place, and when that directory already exists it
\* returns true and changes neither the store nor the disk.
C6_EnsureIdempotent ==
    last.op = "ensure_directory" =>
        /\ last.ok => /\ last.key \in DOMAIN paths
                      /\ Normalize(paths[last.key]) \in dirs
        /\ DirExistedBefore => /\ last.ok
                               /\ paths = last.pre.paths
                               /\ dirs = last.pre.dirs
                               /\ files = last.pre.files

\* ensure_directory called on a projects directory that was already there
C6_Witness ==
    /\ last.op = "ensure_directory"
    /\ last.key = "PROJECTS_DIR"
    /\ DirExistedBefore
    /\ last.ok

----------------------------------------------------------------------------
(* C7 *)

\* C7 as stated: with a computed default, a value in the persisted config and
\* a value in the environment variable <PREFIX>_<KEY> for the same key,
\* get_path(key) on the booted registry returns the environment's value.
C7_EnvironmentWins ==
    ( /\ last.op = "get_path"
      /\ last.key = "LOGS_DIR"
      /\ "APPSUITE_PATH_LOGS_DIR" \in DOMAIN environ
      /\ SettingsJson \in DOMAIN files )
    => last.ret = environ["APPSUITE_PATH_LOGS_DIR"]

----------------------------------------------------------------------------
(* C8 *)

\* the path with the old product segment replaced by the current one
RenamedProduct(p) ==
    [i \in 1..Len(p) |-> IF p[i] = "ProjectManagerSuite" THEN "ProjectSuite" ELSE p[i]]

\* get_path("PROJECTS_DIR") was called while the registered directory was gone
\* and its renamed sibling existed
LookedUpMovedProjects ==
    /\ last.op = "get_path"
    /\ last.key = "PROJECTS_DIR"
    /\ ~IsFalsy(last.pre.paths["PROJECTS_DIR"])
    /\ Normalize(last.pre.paths["PROJECTS_DIR"]) \notin last.pre.dirs
    /\ RenamedProduct(last.pre.paths["PROJECTS_DIR"]) # last.pre.paths["PROJECTS_DIR"]
    /\ RenamedProduct(last.pre.paths["PROJECTS_DIR"]) \in last.pre.dirs

\* C8 as stated: get_path("PROJECTS_DIR") then returns the sibling path and
\* writes it back into the store, so that later lookups return it too.
C8_ReturnsSibling ==
    LookedUpMovedProjects =>
        /\ last.ret = RenamedProduct(last.pre.paths["PROJECTS_DIR"])
        /\ paths["PROJECTS_DIR"] = RenamedProduct(last.pre.paths["PROJECTS_DIR"])

----------------------------------------------------------------------------
(* C9 *)

\* get_path("DB_PATH") was called with the default database path registered
\* and nothing on disk at that path
LookedUpDefaultDb ==
    /\ last.op = "get_path"
    /\ last.key = "DB_PATH"
    /\ last.pre.paths["DB_PATH"] = DefaultDbPath
    /\ DefaultDbPath \notin DOMAIN last.pre.files
    /\ DefaultDbPath \notin last.pre.dirs

\* C9 as stated: get_path("DB_PATH") returns the default database path, the
\* parent directory of that path exists once the call returns, and nothing is
\* created at the database path itself.
C9_DbParentExists ==
    LookedUpDefaultDb =>
        /\ last.ret = DefaultDbPath
        /\ Parent(DefaultDbPath) \in dirs
        /\ DefaultDbPath \notin DOMAIN files
        /\ DefaultDbPath \notin dirs

----------------------------------------------------------------------------
(* C10 *)

\* the legacy files present when migrate_legacy_config was called
LegacyBefore ==
    { LegacyPaths[i] : i \in { j \in 1..Len(LegacyPaths) : LegacyPaths[j] \in DOMAIN last.pre.files } }

\* the lines of a legacy file whose key is in the mapping table
MappedLines(p) ==
    { ParseLine(last.pre.files[p].lines[i]) :
        i \in { j \in 1..Len(last.pre.files[p].lines) :
                  /\ ~ParseLine(last.pre.files[p].lines[j]).skip
                  /\ ~ParseLine(last.pre.files[p].lines[j]).bad
                  /\ normalize_legacy_key(ParseLine(last.pre.files[p].lines[j]).key) # "" } }

\* the line was registered under its mapped key
WasRegistered(pl) ==
    \E j \in 1..Len(last.out.migrated) :
        /\ last.out.migrated[j].key = pl.key
        /\ last.out.migrated[j].normalized = normalize_legacy_key(pl.key)
        /\ last.out.migrated[j].value = pl.value

\* the store holds, for every migrated key, the value of its last migrated line
LastLineWins ==
    \A j \in 1..Len(last.out.migrated) :
        (\A k \in (j + 1)..Len(last.out.migrated) :
            last.out.migrated[k].normalized # last.out.migrated[j].normalized)
        => paths[last.out.migrated[j].normalized] = last.out.migrated[j].value

MovedToBackup(p) ==
    /\ p \notin DOMAIN files
    /\ BackupPath(p) \in DOMAIN files
    /\ files[BackupPath(p)] = last.pre.files[p]

KeptAndReported(p) ==
    /\ p \in DOMAIN files
    /\ files[p] = last.pre.files[p]
    /\ \E j \in 1..Len(last.out.failed) :
          last.out.failed[j].kind = "error" /\ last.out.failed[j].item = p

\* C10 as stated: migrate_legacy_config registers every legacy line whose key
\* is in the mapping table under the mapped key and, once it returns, each
\* legacy file it processed no longer exists under its name and exists as
\* <name>.bak.
C10_RegisteredAndRenamed ==
    last.op = "migrate_legacy_config" =>
        /\ \A p \in LegacyBefore : \A pl \in MappedLines(p) : WasRegistered(pl)
        /\ LastLineWins
        /\ \A p \in LegacyBefore : MovedToBackup(p)

\* C10 (amended): migrate_legacy_config registers every legacy line whose key
\* is in the mapping table under the mapped key, a later line for the same
\* key overriding an earlier one; once it returns, each legacy file it found
\* either exists only as <name>.bak, or, when its remove / rename raised,
\* still exists under its name and is listed in failed_paths.
C10_RegisteredAndRenamedOrReported ==
    last.op = "migrate_legacy_config" =>
        /\ \A p \in LegacyBefore : \A pl \in MappedLines(p) : WasRegistered(pl)
        /\ LastLineWins
        /\ \A p \in LegacyBefore : MovedToBackup(p) \/ KeptAndReported(p)

\* project_dir=/x/y was migrated and its file renamed
C10_Witness ==
    /\ last.op = "migrate_legacy_config"
    /\ LegacyPaths[1] \in LegacyBefore
    /\ MovedToBackup(LegacyPaths[1])
    /\ \E pl \in MappedLines(LegacyPaths[1]) : pl.key = <<"project_dir">>
    /\ paths["PROJECTS_DIR"] = <<"/", "x", "y">>

----------------------------------------------------------------------------
(* C11 *)

\* the well-formed key=value lines of a legacy file whose key is not in the
\* mapping table
UnmappedLines(p) ==
    { ParseLine(last.pre.files[p].lines[i]) :
        i \in { j \in 1..Len(last.pre.files[p].lines) :
                  /\ ~ParseLine(last.pre.files[p].lines[j]).skip
                  /\ ~ParseLine(last.pre.files[p].lines[j]).bad
                  /\ normalize_legacy_key(ParseLine(last.pre.files[p].lines[j]).key) = "" } }

\* some entry of failed_paths mentions the key
NamedInFailures(key) ==
    \E j \in 1..Len(last.out.failed) :
        \A i \in 1..Len(key) :
            \E n \in 1..Len(last.out.failed[j].item) : last.out.failed[j].item[n] = key[i]

\* C11 as stated: for every well-formed key=value line of a legacy file whose
\* key is not in the mapping table, the result of migrate_legacy_config names
\* that key among its failures.
C11_UnmappedReported ==
    last.op = "migrate_legacy_config" =>
        \A p \in LegacyBefore : \A pl \in UnmappedLines(p) : NamedInFailures(pl.key)

----------------------------------------------------------------------------
(* C12 *)

\* the legacy files and their backups
LegacyAndBackups ==
    { LegacyPaths[i] : i \in 1..Len(LegacyPaths) }
        \cup { BackupPath(LegacyPaths[i]) : i \in 1..Len(LegacyPaths) }

\* C12 as stated: a migrate_legacy_config run deletes no data: the content of
\* every legacy file and of every .bak file present before the run is still
\* the content of a file on disk after it.
C12_NoContentLost ==
    last.op = "migrate_legacy_config" =>
        \A p \in LegacyAndBackups \cap DOMAIN last.pre.files :
            \E q \in DOMAIN files : files[q] = last.pre.files[p]

----------------------------------------------------------------------------
(* C13 *)

\* migrate_legacy_config ran while nothing existed at any legacy path
MigratedWithoutLegacy ==
    /\ last.op = "migrate_legacy_config"
    /\ \A i \in 1..Len(LegacyPaths) :
          LegacyPaths[i] \notin DOMAIN last.pre.files /\ LegacyPaths[i] \notin last.pre.dirs

\* C13: a migrate_legacy_config run made when no legacy file exists registers
\* nothing, returns empty migrated and failed lists, and leaves the store and
\* the files on disk, the .bak files among them, exactly as they were.
C13_MigrateIdempotent ==
    MigratedWithoutLegacy =>
        /\ last.out.migrated = <<>>
        /\ last.out.failed = <<>>
        /\ paths = last.pre.paths
        /\ files = last.pre.files

\* a second run, the backup of the first one still in place
C13_Witness ==
    /\ MigratedWithoutLegacy
    /\ BackupPath(LegacyPaths[1]) \in DOMAIN files
    /\ paths["PROJECTS_DIR"] = <<"/", "x", "y">>

----------------------------------------------------------------------------
(* C14 *)

\* C14 as stated: every key present in the store maps to a non-empty
\* absolute path; an empty or relative value is never stored.
C14_AbsolutePathsOnly ==
    \A k \in DOMAIN paths : paths[k] # <<>> /\ IsAbs(paths[k])

----------------------------------------------------------------------------
(* C15 *)

\* C15 as stated: in every reachable state get_path("PROJECTS_DIR") equals
\* get_path("OUTPUT_BASE_DIR").
C15_AliasesAgree ==
    inst.made =>
        get_path_op(Cur, readonly, "PROJECTS_DIR", NoneP).ret
            = get_path_op(Cur, readonly, "OUTPUT_BASE_DIR", NoneP).ret

----------------------------------------------------------------------------
(* C16 *)

\* C16 as stated: constructing PathRegistry and calling register_path raise
\* nothing even when a directory cannot be created; the entry is stored
\* anyway; after construction every default key is registered and the
\* instance is fully usable.
C16_NothingEscapes ==
    /\ last.op \in {"construct", "register_path"} => last.ok
    /\ last.op = "register_path" => /\ last.key \in DOMAIN paths
                                    /\ paths[last.key] = last.path
    /\ inst.made => DefaultKeys \subseteq DOMAIN paths /\ inst.logger

----------------------------------------------------------------------------
(* C17 *)

Returned(t) == threads.th[t].pc = "done"

\* the object a thread got has its store, with every default key in it
StoreReady(o) ==
    /\ threads.objs[o].hasPaths
    /\ DefaultKeys \subseteq DOMAIN threads.objs[o].paths

\* C17 as stated: for every interleaving of threads calling PathRegistry() or
\* get_instance(), all threads obtain the same instance, default registration
\* runs exactly once, and no thread holds the instance before all default
\* keys are registered.
C17_OneRegistry ==
    /\ \A a, b \in Threads :
          Returned(a) /\ Returned(b) => threads.th[a].got = threads.th[b].got
    /\ threads.runs <= 1
    /\ \A t \in Threads : Returned(t) => StoreReady(threads.th[t].got)

----------------------------------------------------------------------------
(* C18 *)

IsFixable(issue) == issue.fixable /\ issue.type \in FixableTypes

\* C18: auto_repair works through the whole list: every fixable issue ends in
\* exactly one of repaired and failed, whether or not an earlier directory
\* creation failed; an issue whose directory could not be created is in
\* failed with a reason.
C18_RepairContinues ==
    last.op = "auto_repair" =>
        /\ last.ok
        /\ Len(last.out.repaired) + Len(last.out.failed)
              = Cardinality({ i \in 1..Len(last.out.given) : IsFixable(last.out.given[i]) })
        /\ \A i \in 1..Len(last.out.given) :
              IsFixable(last.out.given[i]) /\ Normalize(last.out.given[i].path) \notin dirs
                  => InList(last.out.failed, last.out.given[i])
        /\ \A j \in 1..Len(last.out.failed) : last.out.failed[j].reason # ""

\* a directory creation failed and the issue after it was worked on as well
C18_Witness ==
    /\ last.op = "auto_repair"
    /\ \E i \in 1..Len(last.out.given) : \E j \in (i + 1)..Len(last.out.given) :
          /\ IsFixable(last.out.given[i])
          /\ InList(last.out.failed, last.out.given[i])
          /\ IsFixable(last.out.given[j])
          /\ Len(last.out.repaired) + Len(last.out.failed) >= 2

----------------------------------------------------------------------------
(* C19 *)

\* the file export_config was to write can be written: nothing but a file
\* may be at the target, and its directory exists or can be made and accepts
\* a new entry
TargetWritable ==
    /\ last.ret \notin last.pre.dirs
    /\ Mkdir([dirs |-> last.pre.dirs, files |-> last.pre.files], readonly, Parent(last.ret)).ok
    /\ last.ret \in DOMAIN last.pre.files \/ Parent(last.ret) \notin readonly

\* C19 as stated: export_config returns true if and only if the target
\* location is writable, whether the target is an absolute path, a bare file
\* name or omitted, and then the file holds every pair of the store;
\* otherwise it returns false and leaves the store unchanged.
C19_ExportTellsTruth ==
    last.op = "export_config" =>
        /\ last.ok <=> TargetWritable
        /\ last.ok => /\ last.ret \in DOMAIN files
                      /\ files[last.ret] = JsonDoc(DictItems(paths))
        /\ paths = last.pre.paths

----------------------------------------------------------------------------
(* C20 *)

\* the registry and the disk as get_path found them
Before ==
    [paths |-> last.pre.paths, user |-> {}, cfg |-> last.pre.cfg, cache |-> last.pre.cache,
     dirs |-> last.pre.dirs, files |-> last.pre.files]

\* the custom projects path of the persisted settings, when it exists on disk
CustomBefore == get_custom_projects_path(Before).ret

AliasStored == IsProjectsKey(last.key) /\ Alias(last.key) \in DOMAIN last.pre.paths

CustomFound == IsProjectsKey(last.key) /\ CustomBefore # NoneP

----------------------------------------------------------------------------
(* C21 *)

\* str.upper() over the keys of the model
Upper(key) == IF key = "projects_dir" THEN "PROJECTS_DIR" ELSE key

\* C21 as stated: register_path normalizes the key to uppercase: after
\* register_path(k, p) the entry is stored under upper(k), get_path(upper(k))
\* returns p, and every key of get_all_paths() is uppercase.
C21_KeysUppercase ==
    /\ last.op = "register_path" =>
           /\ Upper(last.key) \in DOMAIN paths
           /\ get_path_op(Cur, readonly, Upper(last.key), NoneP).ret = last.path
    /\ \A k \in DOMAIN paths : Upper(k) = k
----------------------------------------------------------------------------
(* C22 *)

\* keys with the suffix _FILE or _PATH, over the keys of the model
IsFileKey(key) == key = "DB_PATH"

\* C22 as stated: for a key with suffix _FILE or _PATH whose path is missing,
\* register_path and ensure_directory(key) create at most the parent
\* directory: afterwards neither a file nor a directory exists at the key's
\* path unless it existed before.
C22_NothingAtFilePath ==
    (/\ last.op \in {"register_path", "ensure_directory"}
     /\ IsFileKey(last.key)
     /\ last.key \in DOMAIN paths)
    => /\ paths[last.key] \in dirs => paths[last.key] \in last.pre.dirs
       /\ paths[last.key] \in DOMAIN files => paths[last.key] \in DOMAIN last.pre.files
----------------------------------------------------------------------------
(* C23 *)

\* the disk as the last call found it
DiskBefore == [dirs |-> last.pre.dirs, files |-> last.pre.files]

WatchedKeys == { EssentialDirs[i] : i \in 1..Len(EssentialDirs) }

\* the last diagnose() listed an issue of this type for the key
Listed(key, type) ==
    \E i \in 1..Len(last.out.issues) :
        last.out.issues[i].key = key /\ last.out.issues[i].type = type

\* ... with this severity and this fixable flag
ListedAs(key, type, severity, fixable) ==
    \E i \in 1..Len(last.out.issues) :
        last.out.issues[i] = Issue(type, key, last.pre.paths[key], severity, fixable)

\* the classification of the watched keys with the severities lo (fixable)
\* and hi (not fixable); others are the further severities a non-fixable
\* issue may carry
ClassifiedWith(lo, hi, others) ==
    last.op = "diagnose" =>
        /\ \A k \in WatchedKeys :
              (k \in DOMAIN last.pre.paths /\ ~IsFalsy(last.pre.paths[k])) =>
                  /\ ~FsExists(DiskBefore, last.pre.paths[k])
                        => ListedAs(k, "missing_dir", lo, TRUE)
                  /\ (/\ FsExists(DiskBefore, last.pre.paths[k])
                      /\ ~FsIsDir(DiskBefore, last.pre.paths[k]))
                        => ListedAs(k, "not_dir", hi, FALSE)
                  /\ ~(Listed(k, "missing_dir") /\ Listed(k, "not_dir"))
        /\ \A i \in 1..Len(last.out.issues) :
              IF last.out.issues[i].fixable
              THEN last.out.issues[i].severity = lo
              ELSE last.out.issues[i].severity \in {hi} \cup others

----------------------------------------------------------------------------
(* C24 *)

\* the candidates of the list that exist and can be read to their end
ReadableCandidates ==
    { i \in 1..Len(DefaultsTxtCandidates) : Readable(DiskBefore, DefaultsTxtCandidates[i]) }

\* the first of them, in list order
FirstReadable ==
    DefaultsTxtCandidates[CHOOSE i \in ReadableCandidates : \A j \in ReadableCandidates : i <= j]

\* C24 as stated: the flat-file loader takes its settings from a single
\* candidate file, the first in list order that exists and can be read: the
\* result holds exactly that file's well-formed key=value lines, and entries
\* of any other candidate, or of a candidate whose reading failed part-way,
\* are never mixed in.
C24_SingleCandidate ==
    (/\ last.op = "get_config"
     /\ last.pre.cfg = EmptyMap
     /\ last.pre.cache = EmptyMap)
    => cfg = IF ReadableCandidates = {} THEN EmptyMap
             ELSE ParseConfigLines(EmptyMap, last.pre.files[FirstReadable].lines)
----------------------------------------------------------------------------
(* C25 *)

SeedingOps ==
    {"try_copy_critical_files", "initialize_sample_data", "migrate_cpl_files",
     "setup_environment"}

\* C25 as stated: start-up data seeding never overwrites an existing user
\* file: every file already present in the user data directory (projects.db,
\* master/export CSVs, templates, CreateProjectList config) has the same
\* content after the seeding functions as before, on the first run and on
\* every later start.
C25_SeedingKeepsUserFiles ==
    last.op \in SeedingOps =>
        \A x \in DOMAIN last.pre.files :
            (IsPrefix(PMData, x) \/ IsPrefix(CplDir, x)) =>
                x \in DOMAIN files /\ files[x] = last.pre.files[x]
----------------------------------------------------------------------------
(* C29 *)

\* C29 as stated: save_config returns normally whenever the configuration is
\* written successfully, whether or not config_file existed before the call;
\* constructing a ConfigManager for a path with no config file creates the
\* file with the default settings without raising; after a normal return no
\* .bak backup file remains.
C29_SaveReturnsNormally ==
    /\ (last.op = "cpl_save_config" /\ last.ret = last.path) => last.ok
    /\ (last.op = "cpl_init" /\ ~FsExists(DiskBefore, last.path))
           => last.ok /\ last.path \in DOMAIN files
    /\ (last.op \in {"cpl_save_config", "cpl_init"} /\ last.ok)
           => WithSuffixBak(last.path) \notin DOMAIN files
----------------------------------------------------------------------------
(* C30 *)

\* C30 as stated: for any sequence of launch_dashboard, shutdown and
\* shutdown_dashboard calls on one DashboardConnector, at most one dashboard
\* child process started by it is running at any time: launch_dashboard
\* starts a new process only when no process it started earlier is still
\* alive, and otherwise only opens the browser.
C30_OneDashboard ==
    /\ Cardinality(dash.alive) <= 1
    /\ (last.op = "launch_dashboard" /\ last.key = "started") => dash.alive = {dash.started}
    /\ (last.op = "launch_dashboard" /\ last.key = "reused") => dash.alive = {dash.process}

\* a second child was started after the first one had ended
C30_Witness ==
    /\ last.op = "launch_dashboard"
    /\ last.key = "started"
    /\ dash.started >= 2
    /\ dash.alive = {dash.started}
----------------------------------------------------------------------------
(* C26 *)

\* C26 as stated: the key set of the store only grows; once the registry is
\* constructed every default key, PROJECTS_DIR and OUTPUT_BASE_DIR included,
\* is in the store in every reachable state, and get_path on a default key
\* returns the stored value, without the alias and without the persisted
\* custom_projects_dir.
C26_DefaultKeysStay ==
    /\ DOMAIN last.pre.paths \subseteq DOMAIN paths
    /\ inst.made => DefaultKeys \subseteq DOMAIN paths
    /\ (last.op = "get_path" /\ last.key \in DefaultKeys)
          => /\ last.key \in DOMAIN last.pre.paths
             /\ last.ret = last.pre.paths[last.key]
             /\ paths = last.pre.paths

----------------------------------------------------------------------------
(* C27 *)

\* C27 as stated: in every report returned by diagnose(), whatever the store
\* holds (keys with an empty value included), total_issues equals the number
\* of listed issues and equals error_count + warning_count.
C27_CountsAddUp ==
    last.op = "diagnose" =>
        /\ diagnosis.total_issues = Len(diagnosis.issues)
        /\ diagnosis.total_issues = diagnosis.error_count + diagnosis.warning_count

----------------------------------------------------------------------------
(* C28 *)

\* auto_repair() without an argument has returned with nothing in failed,
\* and no directory is write-protected
RepairedEverything ==
    /\ last.op = "auto_repair"
    /\ last.key = "None"
    /\ last.out.failed = <<>>
    /\ readonly = {}

NoFixableIssue(report) == \A i \in 1..Len(report.issues) : ~report.issues[i].fixable

NothingToRepair(ar) == ar.repaired = <<>> /\ ar.failed = <<>>

Converged(ro, dg) ==
    /\ NoFixableIssue(dg.report)
    /\ NothingToRepair(auto_repair_op(dg.S, ro, NoIssues))

\* C28: where every directory creation succeeds, after auto_repair() the next
\* diagnose() reports no fixable issue and a further auto_repair() returns
\* empty repaired and failed lists.
C28_RepairConverges == RepairedEverything => Converged(readonly, diagnose_op(Cur, readonly))

\* auto_repair() created a directory that was missing
C28_Witness ==
    /\ RepairedEverything
    /\ last.out.repaired # <<>>
    /\ \E i \in 1..Len(last.out.repaired) :
          Normalize(last.out.repaired[i].path) \notin last.pre.dirs
====
